---- MODULE Spec2Model ----
(***************************************************************************)
(* Model of luainstaller's static dependency discovery                     *)
(* (luainstaller/source/dependency_analyzer.py):                           *)
(*   - DependencyAnalyzer: the recursive graph builder and the manifest    *)
(*     generation, over a file tree written by the environment;            *)
(*   - LuaLexer: the character scanner that extracts require statements.   *)
(* Spec is the discovery pass over every file tree within the bounds,      *)
(* SpecLexer is one scan of every source text within the bounds.           *)
(***************************************************************************)
EXTENDS Integers, Sequences, FiniteSets, TLC

\* ------------------------------------------------------------------------
\* Bounds
\* ------------------------------------------------------------------------
\* number of distinct files of the tree (file 0 is the entry script)
NumFiles == 4
\* total number of require statements written in the tree
MaxEdges == 4
\* largest max_dependencies the caller passes
MaxLimit == 3
\* number of fragments a scanned source text is made of
MaxFrags == 5
\* number of calls of analyze_dependencies on one tree
MaxCalls == 2
\* number of module files on the disk a resolver looks at
MaxDiskFiles == 2
\* length of the dependency list handed to compile_lua_script
MaxDeps == 3

Files == 0 .. (NumFiles - 1)
entry_script == 0

\* ------------------------------------------------------------------------
\* State of the discovery pass
\* ------------------------------------------------------------------------
VARIABLES
    tree,               \* the file tree: tree[f] = [dynamic, refs], what scanning f and
                        \* resolving each of its require statements gives, in source order
    entry_exists,       \* whether the entry path exists on disk
    phase,              \* "setup", "constructed", "running", "raising", "done"
    manual,             \* the manual_mode argument of analyze_dependencies
    max_dependencies,   \* DependencyAnalyzer.max_dependencies
    visited,            \* DependencyAnalyzer.visited
    visiting,           \* DependencyAnalyzer.visiting
    stack,              \* DependencyAnalyzer.stack
    dependency_tree,    \* DependencyAnalyzer.dependency_tree
    frames,             \* activations of _analyze_recursive: [script, next, dependencies, seen]
    result,             \* "none", "ok" or the name of the exception raised
    manifest,           \* the list returned by analyze
    error,              \* fields carried by the exception raised
    done_order,         \* history: files in the order they were marked visited
    calls,              \* history: the outcomes of the earlier calls of analyze_dependencies
    io                  \* history: what the current call has read, built and resolved

passVars == <<tree, entry_exists, phase, manual, max_dependencies, visited, visiting, stack,
              dependency_tree, frames, result, manifest, error, done_order, calls, io>>

\* ------------------------------------------------------------------------
\* State of one LuaLexer
\* ------------------------------------------------------------------------
VARIABLES
    source,             \* LuaLexer.source, a sequence of characters
    pos,                \* LuaLexer.pos (0-based as in the code)
    line,               \* LuaLexer.line
    state,              \* LuaLexer.state
    long_bracket_level, \* LuaLexer.long_bracket_level
    requires,           \* the local list `requires` of extract_requires
    lex_result,         \* "idle", "scanning", "returned", "DynamicRequireError"
    lex_error,          \* fields carried by the DynamicRequireError raised
    lex_log             \* history: one record per call of _parse_require

lexVars == <<source, pos, line, state, long_bracket_level, requires, lex_result,
             lex_error, lex_log>>

\* ------------------------------------------------------------------------
\* State of one ModuleResolver and of the disk it looks at
\* ------------------------------------------------------------------------
VARIABLES
    disk,               \* the module files that exist on disk, as paths
    existing_locals,    \* history: the conventional directories that existed at construction
    probe,              \* history: what the run of `luarocks path` did at construction
    luarocks_paths,     \* history: the directories _detect_luarocks returned
    search_paths,       \* ModuleResolver.search_paths
    res_phase,          \* "idle", "new", "built", "failed", "resolved"
    request,            \* the arguments of the call of resolve
    resolution          \* what resolve returned or raised

resVars == <<disk, existing_locals, probe, luarocks_paths, search_paths, res_phase, request,
            resolution>>

\* ------------------------------------------------------------------------
\* State of one call of compile_lua_script (luainstaller/source/engine.py)
\* ------------------------------------------------------------------------
VARIABLES
    tools,              \* the programs shutil.which finds in PATH
    eng_disk,           \* the script files that exist on disk, as paths
    eng_args,           \* the arguments [entry_script, dependencies, output] of the call
    command,            \* the local list `command`
    dep_index,          \* the position of the loop over dependencies
    eng_phase,          \* "idle", "verify", "validate", "deps", "done"
    eng_result,         \* what the call returned or raised
    run_result,         \* the local `result`: what subprocess.run returned
    invoked             \* history: the commands handed to subprocess.run

engVars == <<tools, eng_disk, eng_args, command, dep_index, eng_phase, eng_result,
            run_result, invoked>>

vars == <<passVars, lexVars, resVars, engVars>>

\* ------------------------------------------------------------------------
\* The file tree
\* ------------------------------------------------------------------------
\* What ModuleResolver.resolve gives for one require statement of a file: the
\* path of an existing file, or one of its two failures.
Resolved(f) == [err |-> "none", path |-> f]
Unresolved(kind) == [err |-> kind, path |-> entry_script]
ResolveFailures == {"ModuleNotFoundError", "CModuleNotSupportedError"}

EmptyTree == [f \in Files |-> [dynamic |-> FALSE, refs |-> <<>>]]

RECURSIVE SumLen(_, _)
SumLen(t, n) == IF n < 0 THEN 0 ELSE Len(t[n].refs) + SumLen(t, n - 1)
\* number of require statements written so far
EdgeCount == SumLen(tree, NumFiles - 1)

\* files named so far: the entry and every file some require statement resolves to
RefsOf(f) == {tree[f].refs[i] : i \in 1 .. Len(tree[f].refs)}
NamedFiles == {entry_script} \cup {r.path : r \in UNION {RefsOf(f) : f \in Files}}
\* the file being written: the last one with content
Written == {f \in Files : tree[f].dynamic \/ tree[f].refs # <<>>}
Cursor == IF Written = {} THEN entry_script ELSE CHOOSE f \in Written : \A g \in Written : g <= f
MaxNamed == CHOOSE f \in NamedFiles : \A g \in NamedFiles : g <= f

\* The environment appends one require statement to file f. Files are written
\* in increasing order and a file not named before takes the next free
\* number, so each tree is written once up to the names of its files.
WriteRequire(f, r) ==
    /\ phase = "setup"
    /\ entry_exists
    /\ EdgeCount < MaxEdges
    /\ f \in NamedFiles
    /\ f >= Cursor
    /\ ~tree[f].dynamic
    /\ r.err = "none" => r.path <= MaxNamed + 1
    /\ tree' = [tree EXCEPT ![f].refs = Append(@, r)]
    /\ UNCHANGED <<entry_exists, phase, manual, max_dependencies, visited, visiting,
                   stack, dependency_tree, frames, result, manifest, error, done_order,
                   calls, io>>

\* The environment writes a file whose scan raises DynamicRequireError.
WriteDynamic(f) ==
    /\ phase = "setup"
    /\ entry_exists
    /\ f \in NamedFiles
    /\ f >= Cursor
    /\ tree[f].refs = <<>>
    /\ ~tree[f].dynamic
    /\ tree' = [tree EXCEPT ![f].dynamic = TRUE]
    /\ UNCHANGED <<entry_exists, phase, manual, max_dependencies, visited, visiting,
                   stack, dependency_tree, frames, result, manifest, error, done_order,
                   calls, io>>

\* ------------------------------------------------------------------------
\* DependencyAnalyzer
\* ------------------------------------------------------------------------
NoError == [kind |-> "none", path |-> entry_script, chain |-> <<>>,
            current_count |-> 0, limit |-> 0]
\* nothing read, no resolver built, no probe run, nothing resolved, no
\* recursive call made
NoEffects == [reads |-> <<>>, resolvers |-> 0, probes |-> 0, resolves |-> 0,
              recursions |-> <<>>]

Elems(seq) == {seq[i] : i \in 1 .. Len(seq)}
\* list.index: the first position of x in seq
IndexOf(seq, x) == CHOOSE i \in 1 .. Len(seq) : seq[i] = x /\ \A j \in 1 .. (i - 1) : seq[j] # x
\* list.remove: seq without the first occurrence of x
RemoveFirst(seq, x) ==
    IF x \in Elems(seq)
    THEN LET i == IndexOf(seq, x) IN SubSeq(seq, 1, i - 1) \o SubSeq(seq, i + 1, Len(seq))
    ELSE seq
Top(seq) == seq[Len(seq)]
Pop(seq) == SubSeq(seq, 1, Len(seq) - 1)

\* Path.exists: the entry may be missing; a path the resolver returned exists
Exists(f) == f # entry_script \/ entry_exists

\* an exception is raised below the activations `activations`, after the
\* effects `effects`; the analyzer's fields stay as they were
Raise(e, activations, effects) ==
    /\ error' = e
    /\ phase' = "raising"
    /\ frames' = activations
    /\ io' = effects
    /\ UNCHANGED <<tree, entry_exists, manual, max_dependencies, visited, visiting, stack,
                   dependency_tree, result, manifest, done_order, calls>>

\* Propagate with a handler around the recursive call that drops the
\* exception and goes on with the next require
PropagateSwallowed ==
    /\ phase = "raising"
    /\ IF frames # <<>>
       THEN /\ frames' = Append(Pop(frames), [Top(frames) EXCEPT !.next = @ + 1])
            /\ phase' = "running"
            /\ error' = NoError
            /\ UNCHANGED result
       ELSE /\ result' = error.kind
            /\ phase' = "done"
            /\ UNCHANGED <<frames, error>>
    /\ UNCHANGED <<tree, entry_exists, manual, max_dependencies, visited, visiting, stack,
                   dependency_tree, manifest, done_order, calls, io>>

\* the exception in flight leaves one activation of _analyze_recursive, which
\* has no handler for it, or leaves analyze and reaches the caller
Propagate ==
    /\ phase = "raising"
    /\ IF frames # <<>>
       THEN /\ frames' = Pop(frames)
            /\ UNCHANGED <<result, phase>>
       ELSE /\ result' = error.kind
            /\ phase' = "done"
            /\ UNCHANGED frames
    /\ UNCHANGED <<tree, entry_exists, manual, max_dependencies, visited, visiting, stack,
                   dependency_tree, manifest, error, done_order, calls, io>>

\* CycleChain without the cut at the first occurrence: stack + [script_path]
CycleChainWholeStack(script_path) == stack \o <<script_path>>

\* the chain of CircularDependencyError: stack[idx:] + [script_path]
CycleChain(script_path) ==
    SubSeq(stack, IndexOf(stack, script_path), Len(stack)) \o <<script_path>>

\* _analyze_recursive(dep_path) is called from the activation of script_path
Recurse(effects, script_path, dep_path) ==
    [effects EXCEPT !.recursions = Append(@, <<script_path, dep_path>>)]
\* the file is read and scanned
Read(effects, script_path) == [effects EXCEPT !.reads = Append(@, script_path)]

\* EnterScript with one seen-set for open and completed files: a file on the
\* open path is taken for one already analysed
EnterScriptSeenSet(script_path, callers, effects) ==
    IF script_path \in visited \cup visiting
    THEN /\ frames' = callers
         /\ phase' = "running"
         /\ io' = effects
         /\ UNCHANGED <<tree, entry_exists, manual, max_dependencies, visited, visiting,
                        stack, dependency_tree, result, manifest, error, done_order, calls>>
    ELSE IF ~Exists(script_path)
    THEN Raise([NoError EXCEPT !.kind = "ScriptNotFoundError", !.path = script_path],
               callers, effects)
    ELSE IF tree[script_path].dynamic
    THEN Raise([NoError EXCEPT !.kind = "DynamicRequireError", !.path = script_path],
               callers, Read(effects, script_path))
    ELSE /\ visiting' = visiting \cup {script_path}
         /\ stack' = Append(stack, script_path)
         /\ frames' = Append(callers, [script_path |-> script_path,
                                       requires |-> tree[script_path].refs,
                                       next |-> 1,
                                       dependencies |-> <<>>,
                                       seen |-> {}])
         /\ phase' = "running"
         /\ io' = Read(effects, script_path)
         /\ UNCHANGED <<tree, entry_exists, manual, max_dependencies, visited,
                        dependency_tree, result, manifest, error, done_order, calls>>

\* EnterScript without the test against the open path
EnterScriptNoCycleTest(script_path, callers, effects) ==
    IF script_path \in visited
    THEN /\ frames' = callers
         /\ phase' = "running"
         /\ io' = effects
         /\ UNCHANGED <<tree, entry_exists, manual, max_dependencies, visited, visiting,
                        stack, dependency_tree, result, manifest, error, done_order, calls>>
    ELSE IF ~Exists(script_path)
    THEN Raise([NoError EXCEPT !.kind = "ScriptNotFoundError", !.path = script_path],
               callers, effects)
    ELSE IF tree[script_path].dynamic
    THEN Raise([NoError EXCEPT !.kind = "DynamicRequireError", !.path = script_path],
               callers, Read(effects, script_path))
    ELSE /\ visiting' = visiting \cup {script_path}
         /\ stack' = Append(stack, script_path)
         /\ frames' = Append(callers, [script_path |-> script_path,
                                       requires |-> tree[script_path].refs,
                                       next |-> 1,
                                       dependencies |-> <<>>,
                                       seen |-> {}])
         /\ phase' = "running"
         /\ io' = Read(effects, script_path)
         /\ UNCHANGED <<tree, entry_exists, manual, max_dependencies, visited,
                        dependency_tree, result, manifest, error, done_order, calls>>

\* EnterScript without the test for a script already analysed
EnterScriptNoVisitedTest(script_path, callers, effects) ==
    IF script_path \in Elems(stack)
    THEN Raise([NoError EXCEPT !.kind = "CircularDependencyError",
                               !.chain = CycleChain(script_path)],
               callers, effects)
    ELSE IF ~Exists(script_path)
    THEN Raise([NoError EXCEPT !.kind = "ScriptNotFoundError", !.path = script_path],
               callers, effects)
    ELSE IF tree[script_path].dynamic
    THEN Raise([NoError EXCEPT !.kind = "DynamicRequireError", !.path = script_path],
               callers, Read(effects, script_path))
    ELSE /\ visiting' = visiting \cup {script_path}
         /\ stack' = Append(stack, script_path)
         /\ frames' = Append(callers, [script_path |-> script_path,
                                       requires |-> tree[script_path].refs,
                                       next |-> 1,
                                       dependencies |-> <<>>,
                                       seen |-> {}])
         /\ phase' = "running"
         /\ io' = Read(effects, script_path)
         /\ UNCHANGED <<tree, entry_exists, manual, max_dependencies, visited,
                        dependency_tree, result, manifest, error, done_order, calls>>

\* _analyze_recursive(script_path) from its first line to the start of the
\* loop over requires, called with `callers` as the activations below it and
\* `effects` as what the pass has done so far
EnterScript(script_path, callers, effects) ==
    IF script_path \in Elems(stack)
    THEN Raise([NoError EXCEPT !.kind = "CircularDependencyError",
                               !.chain = CycleChain(script_path)],
               callers, effects)
    ELSE IF script_path \in visited
    THEN /\ frames' = callers
         /\ phase' = "running"
         /\ io' = effects
         /\ UNCHANGED <<tree, entry_exists, manual, max_dependencies, visited, visiting,
                        stack, dependency_tree, result, manifest, error, done_order, calls>>
    ELSE IF ~Exists(script_path)
    THEN Raise([NoError EXCEPT !.kind = "ScriptNotFoundError", !.path = script_path],
               callers, effects)
    ELSE IF tree[script_path].dynamic
    THEN Raise([NoError EXCEPT !.kind = "DynamicRequireError", !.path = script_path],
               callers, Read(effects, script_path))
    ELSE /\ visiting' = visiting \cup {script_path}
         /\ stack' = Append(stack, script_path)
         /\ frames' = Append(callers, [script_path |-> script_path,
                                       requires |-> tree[script_path].refs,
                                       next |-> 1,
                                       dependencies |-> <<>>,
                                       seen |-> {}])
         /\ phase' = "running"
         /\ io' = Read(effects, script_path)
         /\ UNCHANGED <<tree, entry_exists, manual, max_dependencies, visited,
                        dependency_tree, result, manifest, error, done_order, calls>>

\* _generate_manifest: visit(node) and its loop over the node's dependencies,
\* on acc = [visited, sorted_deps]
TreeGet(dt, node) == IF node \in DOMAIN dt THEN dt[node] ELSE <<>>

RECURSIVE Visit(_, _, _)
RECURSIVE VisitEach(_, _, _, _)
\* Visit appending the node before its dependencies (pre-order)
VisitPreOrder(dt, node, acc) ==
    IF node \in acc.visited
    THEN acc
    ELSE VisitEach(dt, TreeGet(dt, node), 1,
                   [acc EXCEPT !.visited = @ \cup {node},
                               !.sorted_deps = Append(@, node)])
\* Visit without the visited-set test
VisitAgain(dt, node, acc) ==
    LET after == VisitEach(dt, TreeGet(dt, node), 1, acc)
    IN [after EXCEPT !.sorted_deps = Append(@, node)]
Visit(dt, node, acc) ==
    IF node \in acc.visited
    THEN acc
    ELSE LET marked == [acc EXCEPT !.visited = @ \cup {node}]
             after == VisitEach(dt, TreeGet(dt, node), 1, marked)
         IN [after EXCEPT !.sorted_deps = Append(@, node)]
\* VisitEach going through the dependencies from the last to the first
RECURSIVE VisitEachReversed(_, _, _, _)
VisitEachReversed(dt, deps, i, acc) ==
    IF i > Len(deps)
    THEN acc
    ELSE VisitEachReversed(dt, deps, i + 1, Visit(dt, deps[Len(deps) + 1 - i], acc))
VisitEach(dt, deps, i, acc) ==
    IF i > Len(deps) THEN acc ELSE VisitEach(dt, deps, i + 1, Visit(dt, deps[i], acc))

GenerateManifest(dt) ==
    RemoveFirst(Visit(dt, entry_script, [visited |-> {}, sorted_deps |-> <<>>]).sorted_deps,
                entry_script)

\* what one call of analyze_dependencies leaves for its caller
Outcome == [result |-> result, manifest |-> manifest, error |-> error]

\* Call with `visited` shared by every DependencyAnalyzer instead of created
\* by __init__
CallSharedVisited(manual_mode, max) ==
    /\ manual' = manual_mode
    /\ IF manual_mode
       THEN /\ result' = "ok"
            /\ manifest' = <<>>
            /\ error' = NoError
            /\ io' = NoEffects
            /\ phase' = "done"
            /\ UNCHANGED <<max_dependencies, visited, visiting, stack, dependency_tree,
                           done_order>>
       ELSE IF ~Exists(entry_script)
       THEN /\ result' = "ScriptNotFoundError"
            /\ manifest' = <<>>
            /\ error' = [NoError EXCEPT !.kind = "ScriptNotFoundError",
                                        !.path = entry_script]
            /\ io' = NoEffects
            /\ phase' = "done"
            /\ UNCHANGED <<max_dependencies, visited, visiting, stack, dependency_tree,
                           done_order>>
       ELSE /\ max_dependencies' = max
            /\ io' = [NoEffects EXCEPT !.resolvers = 1, !.probes = 1]
            /\ visiting' = {}
            /\ stack' = <<>>
            /\ dependency_tree' = <<>>
            /\ done_order' = <<>>
            /\ result' = "none"
            /\ manifest' = <<>>
            /\ error' = NoError
            /\ phase' = "constructed"
            /\ UNCHANGED visited
    /\ UNCHANGED <<tree, entry_exists, frames>>

\* Call building the DependencyAnalyzer before it looks at manual_mode
CallConstructsFirst(manual_mode, max) ==
    /\ manual' = manual_mode
    /\ IF ~Exists(entry_script)
       THEN /\ result' = "ScriptNotFoundError"
            /\ manifest' = <<>>
            /\ error' = [NoError EXCEPT !.kind = "ScriptNotFoundError",
                                        !.path = entry_script]
            /\ io' = NoEffects
            /\ phase' = "done"
            /\ UNCHANGED <<max_dependencies, visited, visiting, stack, dependency_tree,
                           done_order>>
       ELSE IF manual_mode
       THEN /\ result' = "ok"
            /\ manifest' = <<>>
            /\ error' = NoError
            /\ io' = [NoEffects EXCEPT !.resolvers = 1, !.probes = 1]
            /\ phase' = "done"
            /\ UNCHANGED <<max_dependencies, visited, visiting, stack, dependency_tree,
                           done_order>>
       ELSE /\ max_dependencies' = max
            /\ io' = [NoEffects EXCEPT !.resolvers = 1, !.probes = 1]
            /\ visited' = {}
            /\ visiting' = {}
            /\ stack' = <<>>
            /\ dependency_tree' = <<>>
            /\ done_order' = <<>>
            /\ result' = "none"
            /\ manifest' = <<>>
            /\ error' = NoError
            /\ phase' = "constructed"
    /\ UNCHANGED <<tree, entry_exists, frames>>

\* Call building the ModuleResolver before it tests that the entry exists
CallResolverFirst(manual_mode, max) ==
    /\ manual' = manual_mode
    /\ IF manual_mode
       THEN /\ result' = "ok"
            /\ manifest' = <<>>
            /\ error' = NoError
            /\ io' = NoEffects
            /\ phase' = "done"
            /\ UNCHANGED <<max_dependencies, visited, visiting, stack, dependency_tree,
                           done_order>>
       ELSE IF ~Exists(entry_script)
       THEN /\ result' = "ScriptNotFoundError"
            /\ manifest' = <<>>
            /\ error' = [NoError EXCEPT !.kind = "ScriptNotFoundError",
                                        !.path = entry_script]
            /\ io' = [NoEffects EXCEPT !.resolvers = 1, !.probes = 1]
            /\ phase' = "done"
            /\ UNCHANGED <<max_dependencies, visited, visiting, stack, dependency_tree,
                           done_order>>
       ELSE /\ max_dependencies' = max
            /\ io' = [NoEffects EXCEPT !.resolvers = 1, !.probes = 1]
            /\ visited' = {}
            /\ visiting' = {}
            /\ stack' = <<>>
            /\ dependency_tree' = <<>>
            /\ done_order' = <<>>
            /\ result' = "none"
            /\ manifest' = <<>>
            /\ error' = NoError
            /\ phase' = "constructed"
    /\ UNCHANGED <<tree, entry_exists, frames>>

\* analyze_dependencies(entry_script, manual_mode, max_dependencies) up to the
\* construction of the DependencyAnalyzer: DependencyAnalyzer.__init__ tests
\* the entry, builds the resolver (which runs the search-path probe) and
\* creates the analyzer's fields
Call(manual_mode, max) ==
    /\ manual' = manual_mode
    /\ IF manual_mode
       THEN /\ result' = "ok"
            /\ manifest' = <<>>
            /\ error' = NoError
            /\ io' = NoEffects
            /\ phase' = "done"
            /\ UNCHANGED <<max_dependencies, visited, visiting, stack, dependency_tree,
                           done_order>>
       ELSE IF ~Exists(entry_script)
       THEN /\ result' = "ScriptNotFoundError"
            /\ manifest' = <<>>
            /\ error' = [NoError EXCEPT !.kind = "ScriptNotFoundError",
                                        !.path = entry_script]
            /\ io' = NoEffects
            /\ phase' = "done"
            /\ UNCHANGED <<max_dependencies, visited, visiting, stack, dependency_tree,
                           done_order>>
       ELSE /\ max_dependencies' = max
            /\ io' = [NoEffects EXCEPT !.resolvers = 1, !.probes = 1]
            /\ visited' = {}
            /\ visiting' = {}
            /\ stack' = <<>>
            /\ dependency_tree' = <<>>
            /\ done_order' = <<>>
            /\ result' = "none"
            /\ manifest' = <<>>
            /\ error' = NoError
            /\ phase' = "constructed"
    /\ UNCHANGED <<tree, entry_exists, frames>>

\* the first call of analyze_dependencies on the tree
AnalyzeDependencies(manual_mode, max) ==
    /\ phase = "setup"
    /\ Call(manual_mode, max)
    /\ UNCHANGED calls

\* the caller runs analyze_dependencies again, with the same arguments, on
\* the unchanged tree
Repeat ==
    /\ phase = "done"
    /\ Len(calls) + 1 < MaxCalls
    /\ calls' = Append(calls, Outcome)
    /\ Call(manual, max_dependencies)

\* the caller calls analyze again on the DependencyAnalyzer it holds: nothing
\* is constructed, visited, visiting, stack and dependency_tree are those the
\* call before left
AnalyzeAgain ==
    /\ phase = "done"
    /\ ~manual
    /\ Exists(entry_script)
    /\ Len(calls) + 1 < MaxCalls
    /\ calls' = Append(calls, Outcome)
    /\ phase' = "constructed"
    /\ result' = "none"
    /\ manifest' = <<>>
    /\ error' = NoError
    /\ frames' = <<>>
    /\ UNCHANGED <<tree, entry_exists, manual, max_dependencies, visited, visiting, stack,
                   dependency_tree, done_order, io>>

\* analyze: the call of _analyze_recursive(entry_script)
Analyze ==
    /\ phase = "constructed"
    /\ EnterScript(entry_script, <<>>, io)

\* ResolveNext with the recursion left out of the loop: a new dependency is
\* recorded and the next require is resolved before the dependency is analysed
ResolveNextDefersRecursion ==
    /\ phase = "running"
    /\ frames # <<>>
    /\ Top(frames).next <= Len(Top(frames).requires)
    /\ LET top == Top(frames)
           r == top.requires[top.next]
           dep_path == r.path
           effects == [io EXCEPT !.resolves = @ + 1]
       IN IF r.err # "none"
          THEN Raise([NoError EXCEPT !.kind = r.err, !.path = top.script_path],
                     frames, effects)
          ELSE /\ frames' = Append(Pop(frames),
                                   IF dep_path \notin top.seen
                                   THEN [top EXCEPT !.next = @ + 1,
                                                    !.seen = @ \cup {dep_path},
                                                    !.dependencies = Append(@, dep_path)]
                                   ELSE [top EXCEPT !.next = @ + 1])
               /\ io' = effects
               /\ UNCHANGED <<tree, entry_exists, phase, manual, max_dependencies, visited,
                              visiting, stack, dependency_tree, result, manifest,
                              error, done_order, calls>>

\* ResolveNext without the test against `seen`: every reference is recorded
\* and followed
ResolveNextNoDedup ==
    /\ phase = "running"
    /\ frames # <<>>
    /\ Top(frames).next <= Len(Top(frames).requires)
    /\ LET top == Top(frames)
           r == top.requires[top.next]
           dep_path == r.path
           effects == [io EXCEPT !.resolves = @ + 1]
       IN IF r.err # "none"
          THEN Raise([NoError EXCEPT !.kind = r.err, !.path = top.script_path],
                     frames, effects)
          ELSE EnterScript(dep_path,
                           Append(Pop(frames),
                                  [top EXCEPT !.next = @ + 1,
                                              !.seen = @ \cup {dep_path},
                                              !.dependencies = Append(@, dep_path)]),
                           Recurse(effects, top.script_path, dep_path))

\* one iteration of the loop over requires in the innermost activation:
\* resolve, deduplicate, and call _analyze_recursive on a new dependency
ResolveNext ==
    /\ phase = "running"
    /\ frames # <<>>
    /\ Top(frames).next <= Len(Top(frames).requires)
    /\ LET top == Top(frames)
           r == top.requires[top.next]
           dep_path == r.path
           effects == [io EXCEPT !.resolves = @ + 1]
       IN IF r.err # "none"
          THEN Raise([NoError EXCEPT !.kind = r.err, !.path = top.script_path],
                     frames, effects)
          ELSE IF dep_path \notin top.seen
          THEN EnterScript(dep_path,
                           Append(Pop(frames),
                                  [top EXCEPT !.next = @ + 1,
                                              !.seen = @ \cup {dep_path},
                                              !.dependencies = Append(@, dep_path)]),
                           Recurse(effects, top.script_path, dep_path))
          ELSE /\ frames' = Append(Pop(frames), [top EXCEPT !.next = @ + 1])
               /\ io' = effects
               /\ UNCHANGED <<tree, entry_exists, phase, manual, max_dependencies, visited,
                              visiting, stack, dependency_tree, result, manifest,
                              error, done_order, calls>>

\* RecordScript recording a list only when it is not empty
RecordScriptSkipsLeaves ==
    /\ phase = "running"
    /\ frames # <<>>
    /\ Top(frames).next > Len(Top(frames).requires)
    /\ LET top == Top(frames)
           script_path == top.script_path
       IN /\ dependency_tree' =
                IF top.dependencies = <<>>
                THEN dependency_tree
                ELSE [f \in DOMAIN dependency_tree \cup {script_path} |->
                        IF f = script_path THEN top.dependencies ELSE dependency_tree[f]]
          /\ stack' = Pop(stack)
          /\ visiting' = visiting \ {script_path}
          /\ visited' = visited \cup {script_path}
          /\ done_order' = Append(done_order, script_path)
    /\ frames' = Pop(frames)
    /\ UNCHANGED <<tree, entry_exists, phase, manual, max_dependencies, result, manifest,
                   error, calls, io>>

\* RecordScript with the ceiling tested each time a script is marked visited
RecordScriptChecksLimit ==
    /\ phase = "running"
    /\ frames # <<>>
    /\ Top(frames).next > Len(Top(frames).requires)
    /\ LET top == Top(frames)
           script_path == top.script_path
       IN /\ dependency_tree' =
                [f \in DOMAIN dependency_tree \cup {script_path} |->
                    IF f = script_path THEN top.dependencies ELSE dependency_tree[f]]
          /\ stack' = Pop(stack)
          /\ visiting' = visiting \ {script_path}
          /\ visited' = visited \cup {script_path}
          /\ done_order' = Append(done_order, script_path)
          /\ IF Cardinality(visited' \ {entry_script}) > max_dependencies
             THEN /\ error' = [NoError EXCEPT
                                  !.kind = "DependencyLimitExceededError",
                                  !.current_count = Cardinality(visited' \ {entry_script}),
                                  !.limit = max_dependencies]
                  /\ phase' = "raising"
             ELSE UNCHANGED <<error, phase>>
    /\ frames' = Pop(frames)
    /\ UNCHANGED <<tree, entry_exists, manual, max_dependencies, result, manifest,
                   calls, io>>

\* RecordScript without visiting.remove
RecordScriptKeepsVisiting ==
    /\ phase = "running"
    /\ frames # <<>>
    /\ Top(frames).next > Len(Top(frames).requires)
    /\ LET top == Top(frames)
           script_path == top.script_path
       IN /\ dependency_tree' =
                [f \in DOMAIN dependency_tree \cup {script_path} |->
                    IF f = script_path THEN top.dependencies ELSE dependency_tree[f]]
          /\ stack' = Pop(stack)
          /\ visited' = visited \cup {script_path}
          /\ done_order' = Append(done_order, script_path)
    /\ frames' = Pop(frames)
    /\ UNCHANGED <<tree, entry_exists, phase, manual, max_dependencies, result, manifest,
                   error, calls, io, visiting>>

\* the end of _analyze_recursive: record the dependency list, leave the open
\* path, mark the script visited, return to the caller
RecordScript ==
    /\ phase = "running"
    /\ frames # <<>>
    /\ Top(frames).next > Len(Top(frames).requires)
    /\ LET top == Top(frames)
           script_path == top.script_path
       IN /\ dependency_tree' =
                [f \in DOMAIN dependency_tree \cup {script_path} |->
                    IF f = script_path THEN top.dependencies ELSE dependency_tree[f]]
          /\ stack' = Pop(stack)
          /\ visiting' = visiting \ {script_path}
          /\ visited' = visited \cup {script_path}
          /\ done_order' = Append(done_order, script_path)
    /\ frames' = Pop(frames)
    /\ UNCHANGED <<tree, entry_exists, phase, manual, max_dependencies, result, manifest,
                   error, calls, io>>

\* AnalyzeReturn counting the entry script among the dependencies
AnalyzeReturnCountsEntry ==
    /\ phase = "running"
    /\ frames = <<>>
    /\ LET total_count == Cardinality(visited)
       IN IF total_count > max_dependencies
          THEN Raise([NoError EXCEPT !.kind = "DependencyLimitExceededError",
                                     !.current_count = total_count,
                                     !.limit = max_dependencies],
                     frames, io)
          ELSE /\ manifest' = GenerateManifest(dependency_tree)
               /\ result' = "ok"
               /\ phase' = "done"
               /\ UNCHANGED <<tree, entry_exists, manual, max_dependencies, visited,
                              visiting, stack, dependency_tree, frames, error, done_order,
                              calls, io>>

\* analyze after _analyze_recursive returned: the limit check and the manifest
AnalyzeReturn ==
    /\ phase = "running"
    /\ frames = <<>>
    /\ LET total_count == Cardinality(visited) - 1
       IN IF total_count > max_dependencies
          THEN Raise([NoError EXCEPT !.kind = "DependencyLimitExceededError",
                                     !.current_count = total_count,
                                     !.limit = max_dependencies],
                     frames, io)
          ELSE /\ manifest' = GenerateManifest(dependency_tree)
               /\ result' = "ok"
               /\ phase' = "done"
               /\ UNCHANGED <<tree, entry_exists, manual, max_dependencies, visited, visiting,
                              stack, dependency_tree, frames, error, done_order, calls, io>>

\* ------------------------------------------------------------------------
\* LuaLexer
\* ------------------------------------------------------------------------
\* Positions are 0-based as in the code: the character at position p is
\* source[p + 1].
Keyword == <<"r", "e", "q", "u", "i", "r", "e">>
Letters == {"a", "b", "c", "d", "e", "f", "g", "h", "i", "j", "k", "l", "m",
            "n", "o", "p", "q", "r", "s", "t", "u", "v", "w", "x", "y", "z"}
Digits == {"0", "1", "2", "3", "4", "5", "6", "7", "8", "9"}
\* str.isalnum
IsAlnum(c) == c \in Letters \cup Digits
Whitespace == {" ", "\t", "\n", "\r"}

\* _current_char / _peek_char at position p: "" at the end of the source
CharAt(p) == IF p >= Len(source) THEN "" ELSE source[p + 1]
\* source[a:b]
Slice(a, b) ==
    LET hi == IF b > Len(source) THEN Len(source) ELSE b
    IN IF a >= hi THEN <<>> ELSE SubSeq(source, a + 1, hi)

\* MatchKeyword without the test of the character before the keyword
MatchKeywordAnyPrefix(p, keyword) ==
    /\ Slice(p, p + Len(keyword)) = keyword
    /\ (p + Len(keyword) < Len(source)) =>
          ~(IsAlnum(source[p + Len(keyword) + 1]) \/ source[p + Len(keyword) + 1] = "_")

\* _match_keyword(keyword) at position p
MatchKeyword(p, keyword) ==
    /\ Slice(p, p + Len(keyword)) = keyword
    /\ (p - 1 >= 0) =>
          ~(IsAlnum(source[p]) \/ source[p] \in {"_", ".", ":"})
    /\ (p + Len(keyword) < Len(source)) =>
          ~(IsAlnum(source[p + Len(keyword) + 1]) \/ source[p + Len(keyword) + 1] = "_")

\* the number of consecutive characters c from position p on
RECURSIVE RunForward(_, _)
RunForward(p, c) == IF p < Len(source) /\ source[p + 1] = c THEN 1 + RunForward(p + 1, c) ELSE 0
\* the number of consecutive characters c from position p back
RECURSIVE RunBackward(_, _)
RunBackward(p, c) == IF p >= 0 /\ source[p + 1] = c THEN 1 + RunBackward(p - 1, c) ELSE 0

\* _is_not_escaped looking at the one character before p only
IsNotEscapedOneBack(p) ==
    IF p = 0 THEN TRUE ELSE source[p] # "\\"

\* _is_not_escaped at position p
IsNotEscaped(p) ==
    IF p = 0 THEN TRUE ELSE RunBackward(p - 1, "\\") % 2 = 0

\* _count_bracket_level without the test for the second bracket
CountBracketLevelOpenOnly(p) ==
    IF p >= Len(source) \/ source[p + 1] # "["
    THEN -1
    ELSE RunForward(p + 1, "=")

\* _count_bracket_level, with p = self.pos + start_offset
CountBracketLevel(p) ==
    IF p >= Len(source) \/ source[p + 1] # "["
    THEN -1
    ELSE LET level == RunForward(p + 1, "=")
         IN IF p + 1 + level < Len(source) /\ source[p + 1 + level + 1] = "["
            THEN level
            ELSE -1

\* CheckClosingBracket without the comparison of the levels
CheckClosingBracketAnyLevel(p, expected_level) ==
    IF CharAt(p) # "]"
    THEN FALSE
    ELSE LET level == RunForward(p + 1, "=")
         IN /\ p + 1 + level < Len(source)
            /\ source[p + 1 + level + 1] = "]"

\* _check_closing_bracket(expected_level) at position p
CheckClosingBracket(p, expected_level) ==
    IF CharAt(p) # "]"
    THEN FALSE
    ELSE LET level == RunForward(p + 1, "=")
         IN /\ p + 1 + level < Len(source)
            /\ source[p + 1 + level + 1] = "]"
            /\ level = expected_level

\* _update_state(char) at position p: the new [state, long_bracket_level]
UpdateState(char, p, st, lvl) ==
    LET same == [state |-> st, long_bracket_level |-> lvl]
    IN CASE st = "NORMAL" ->
              IF char = "-" /\ CharAt(p + 1) = "-"
              THEN IF CharAt(p + 2) = "[" /\ CountBracketLevel(p + 2) >= 0
                   THEN [state |-> "IN_BLOCK_COMMENT",
                         long_bracket_level |-> CountBracketLevel(p + 2)]
                   ELSE [state |-> "IN_LINE_COMMENT", long_bracket_level |-> lvl]
              ELSE IF char = "'"
              THEN [state |-> "IN_STRING_SINGLE", long_bracket_level |-> lvl]
              ELSE IF char = "\""
              THEN [state |-> "IN_STRING_DOUBLE", long_bracket_level |-> lvl]
              ELSE IF char = "[" /\ CountBracketLevel(p) >= 0
              THEN [state |-> "IN_LONG_STRING",
                    long_bracket_level |-> CountBracketLevel(p)]
              ELSE same
         [] st = "IN_STRING_SINGLE" ->
              IF char = "'" /\ IsNotEscaped(p)
              THEN [state |-> "NORMAL", long_bracket_level |-> lvl] ELSE same
         [] st = "IN_STRING_DOUBLE" ->
              IF char = "\"" /\ IsNotEscaped(p)
              THEN [state |-> "NORMAL", long_bracket_level |-> lvl] ELSE same
         [] st = "IN_LONG_STRING" ->
              IF char = "]" /\ CheckClosingBracket(p, lvl)
              THEN [state |-> "NORMAL", long_bracket_level |-> lvl] ELSE same
         [] st = "IN_LINE_COMMENT" ->
              IF char = "\n"
              THEN [state |-> "NORMAL", long_bracket_level |-> lvl] ELSE same
         [] st = "IN_BLOCK_COMMENT" ->
              IF char = "]" /\ CheckClosingBracket(p, lvl)
              THEN [state |-> "NORMAL", long_bracket_level |-> lvl] ELSE same

\* the whitespace-skipping loops of _parse_require, counting newlines:
\* the [pos, line] reached from position p on line ln
RECURSIVE SkipWhitespace(_, _)
SkipWhitespace(p, ln) ==
    IF p < Len(source) /\ CharAt(p) \in Whitespace
    THEN SkipWhitespace(p + 1, IF CharAt(p) = "\n" THEN ln + 1 ELSE ln)
    ELSE [pos |-> p, line |-> ln]

\* _check_no_concatenation with self.pos = p: TRUE when it raises
RECURSIVE SkipBlank(_)
SkipBlank(p) ==
    IF p < Len(source) /\ CharAt(p) \in Whitespace THEN SkipBlank(p + 1) ELSE p
ConcatenationFollows(p) == Slice(SkipBlank(p), SkipBlank(p) + 2) = <<".", ".">>

\* what _parse_require hands back: a module name with the position and line
\* it leaves the lexer at, or the DynamicRequireError it raises
Static(name, p, ln, open, close) ==
    [raised |-> FALSE, module_name |-> name, pos |-> p, line |-> ln,
     reason |-> "none", open |-> open, close |-> close, start |-> 0, stop |-> 0]
Dynamic(reason, name, p, ln, a, b) ==
    [raised |-> TRUE, module_name |-> name, pos |-> p, line |-> ln,
     reason |-> reason, open |-> 0, close |-> 0, start |-> a, stop |-> b]

\* the loop of _extract_string_literal from position p, with `text` collected
RECURSIVE StringLoop(_, _, _, _, _)
\* StringLoop decoding an escape sequence to the escaped character
StringLoopDecoding(p, quote_char, text, ln, open) ==
    IF p >= Len(source)
    THEN Dynamic("unterminated string", text, p, ln, 0, 0)
    ELSE LET char == CharAt(p)
         IN IF char = quote_char /\ IsNotEscaped(p)
            THEN IF ConcatenationFollows(p + 1)
                 THEN Dynamic("concatenation", text, p + 1, ln, 0, 0)
                 ELSE Static(text, p + 1, ln, open, p)
            ELSE IF char = "\\"
            THEN IF p + 1 < Len(source)
                 THEN StringLoop(p + 2, quote_char, Append(text, CharAt(p + 1)), ln, open)
                 ELSE StringLoop(p + 2, quote_char, text, ln, open)
            ELSE StringLoop(p + 1, quote_char, Append(text, char), ln, open)
StringLoop(p, quote_char, text, ln, open) ==
    IF p >= Len(source)
    THEN Dynamic("unterminated string", text, p, ln, 0, 0)
    ELSE LET char == CharAt(p)
         IN IF char = quote_char /\ IsNotEscaped(p)
            THEN IF ConcatenationFollows(p + 1)
                 THEN Dynamic("concatenation", text, p + 1, ln, 0, 0)
                 ELSE Static(text, p + 1, ln, open, p)
            ELSE IF char = "\\"
            THEN IF p + 1 < Len(source)
                 THEN StringLoop(p + 2, quote_char, text \o <<char, CharAt(p + 1)>>, ln, open)
                 ELSE StringLoop(p + 2, quote_char, Append(text, char), ln, open)
            ELSE StringLoop(p + 1, quote_char, Append(text, char), ln, open)

\* _extract_string_literal with self.pos = p on the opening quote
ExtractStringLiteral(p, ln) == StringLoop(p + 1, CharAt(p), <<>>, ln, p)

\* the loop of _extract_long_string_literal from position p
RECURSIVE LongStringLoop(_, _, _, _, _)
LongStringLoop(p, level, text, ln, open) ==
    IF p >= Len(source)
    THEN Dynamic("unterminated long string", text, p, ln, 0, 0)
    ELSE IF CharAt(p) = "]" /\ CheckClosingBracket(p, level)
    THEN IF ConcatenationFollows(p + 2 + level)
         THEN Dynamic("concatenation", text, p + 2 + level, ln, 0, 0)
         ELSE Static(text, p + 2 + level, ln, open, p)
    ELSE LongStringLoop(p + 1, level, Append(text, CharAt(p)),
                        IF CharAt(p) = "\n" THEN ln + 1 ELSE ln, open)

\* _extract_long_string_literal(level) with self.pos = p on the opening bracket
ExtractLongStringLiteral(p, level, ln) == LongStringLoop(p + 2 + level, level, <<>>, ln, p)

\* the end of the statement slice reported by a dynamic require
RECURSIVE StatementEnd(_)
StatementEnd(p) ==
    IF p < Len(source) /\ source[p + 1] \notin {"\n", ";"} THEN StatementEnd(p + 1) ELSE p

\* _parse_require with self.pos = start_pos on the keyword, self.line = start_line
ParseRequire(start_pos, start_line) ==
    LET afterKeyword == SkipWhitespace(start_pos + Len(Keyword), start_line)
        afterParen ==
            IF CharAt(afterKeyword.pos) = "("
            THEN SkipWhitespace(afterKeyword.pos + 1, afterKeyword.line)
            ELSE afterKeyword
        p == afterParen.pos
        ln == afterParen.line
        char == CharAt(p)
    IN IF char \in {"\"", "'"}
       THEN ExtractStringLiteral(p, ln)
       ELSE IF char = "[" /\ CountBracketLevel(p) >= 0
       THEN ExtractLongStringLiteral(p, CountBracketLevel(p), ln)
       ELSE Dynamic("statement", <<>>, p, ln, start_pos, StatementEnd(p))

\* one iteration of the loop of extract_requires
LexStep ==
    /\ lex_result = "scanning"
    /\ pos < Len(source)
    /\ LET char == CharAt(pos)
           updated == UpdateState(char, pos, state, long_bracket_level)
       IN /\ state' = updated.state
          /\ long_bracket_level' = updated.long_bracket_level
          /\ IF updated.state = "NORMAL" /\ MatchKeyword(pos, Keyword)
             THEN LET parsed == ParseRequire(pos, line)
                      kept == ~parsed.raised /\ parsed.module_name # <<>>
                      entry == [start_pos |-> pos, start_line |-> line, parsed |-> parsed,
                                index |-> IF kept THEN Len(requires) + 1 ELSE 0]
                  IN /\ lex_log' = Append(lex_log, entry)
                     /\ IF parsed.raised
                        THEN /\ lex_result' = "DynamicRequireError"
                             /\ lex_error' = [line_number |-> line,
                                              reason |-> parsed.reason,
                                              start |-> parsed.start,
                                              stop |-> parsed.stop]
                             /\ pos' = parsed.pos
                             /\ line' = parsed.line
                             /\ UNCHANGED requires
                        ELSE /\ requires' = IF parsed.module_name # <<>>
                                            THEN Append(requires,
                                                        <<parsed.module_name, parsed.line>>)
                                            ELSE requires
                             /\ line' = parsed.line
                             /\ pos' = parsed.pos + 1
                             /\ UNCHANGED <<lex_result, lex_error>>
             ELSE /\ line' = IF char = "\n" THEN line + 1 ELSE line
                  /\ pos' = pos + 1
                  /\ UNCHANGED <<requires, lex_result, lex_error, lex_log>>
    /\ UNCHANGED source

\* extract_requires returns when the loop ends
LexReturn ==
    /\ lex_result = "scanning"
    /\ pos >= Len(source)
    /\ lex_result' = "returned"
    /\ UNCHANGED <<source, pos, line, state, long_bracket_level, requires, lex_error, lex_log>>

\* ------------------------------------------------------------------------
\* ModuleResolver
\* ------------------------------------------------------------------------
\* A string is a sequence of characters; a Path is the sequence of its
\* components from the root, each component a string.
LuaSuffix == <<".", "l", "u", "a">>
InitLua == <<"i", "n", "i", "t", ".", "l", "u", "a">>
C_EXTENSIONS == {<<".", "s", "o">>, <<".", "d", "l", "l">>, <<".", "d", "y", "l", "i", "b">>}

\* str.startswith, str.endswith
StartsWith(s, prefix) == Len(s) >= Len(prefix) /\ SubSeq(s, 1, Len(prefix)) = prefix
EndsWith(s, suffix) ==
    Len(s) >= Len(suffix) /\ SubSeq(s, Len(s) - Len(suffix) + 1, Len(s)) = suffix
\* str.replace(old, new) for single characters
Replace(s, old, new) == [i \in 1 .. Len(s) |-> IF s[i] = old THEN new ELSE s[i]]

\* the components pathlib reads in a string: the text between separators;
\* empty components and `.` are dropped, `..` is kept
RECURSIVE Parts(_, _)
Parts(s, current) ==
    LET closed == IF current \in {<<>>, <<".">>} THEN <<>> ELSE <<current>>
    IN IF s = <<>> THEN closed
       ELSE IF Head(s) = "/" THEN closed \o Parts(Tail(s), <<>>)
       ELSE Parts(Tail(s), Append(current, Head(s)))
\* path / s: an absolute s replaces the path
Join(path, s) == IF StartsWith(s, <<"/">>) THEN Parts(s, <<>>) ELSE path \o Parts(s, <<>>)
\* Path.parent
Parent(path) == IF path = <<>> THEN <<>> ELSE SubSeq(path, 1, Len(path) - 1)
\* Path.resolve: each `..` leaves the directory before it
RECURSIVE Normalize(_, _)
Normalize(path, done) ==
    IF path = <<>> THEN done
    ELSE IF Head(path) = <<".", ".">> THEN Normalize(Tail(path), Parent(done))
    ELSE Normalize(Tail(path), Append(done, Head(path)))
PathResolve(path) == Normalize(path, <<>>)
\* Path(str(path) + ext)
AddSuffix(path, ext) ==
    IF path = <<>> THEN <<ext>> ELSE [path EXCEPT ![Len(path)] = @ \o ext]
\* path.suffix == '.lua'
HasLuaSuffix(path) ==
    path # <<>> /\ EndsWith(path[Len(path)], LuaSuffix) /\ Len(path[Len(path)]) > Len(LuaSuffix)
\* Path.exists for a module file
PathExists(path) == PathResolve(path) \in disk

\* the directory of the entry script, and the conventional directories below it
base_path == << <<"w">> >>
local_dirs ==
    << base_path \o << <<"l", "u", "a", "_", "m", "o", "d", "u", "l", "e", "s">> >>,
       base_path \o << <<"l", "i", "b">> >>,
       base_path \o << <<"s", "r", "c">> >> >>
\* the directory a LuaRocks installation reports
RocksTree == << <<"r">> >>

\* what resolve hands back
Found(path) == [kind |-> "path", path |-> path, module_name |-> <<>>, searched |-> <<>>]
CModuleNotSupported(module_name, c_path) ==
    [kind |-> "CModuleNotSupportedError", path |-> c_path, module_name |-> module_name,
     searched |-> <<>>]
ModuleNotFound(module_name, searched) ==
    [kind |-> "ModuleNotFoundError", path |-> <<>>, module_name |-> module_name,
     searched |-> searched]
NoResolution == [kind |-> "none", path |-> <<>>, module_name |-> <<>>, searched |-> <<>>]

\* What subprocess.run(['luarocks', 'path', '--lr-path'], text=True,
\* timeout=5, check=False) can do: raise, or complete with an exit code and
\* an output, here the directories the output names, each with whether the
\* directory exists. UnicodeDecodeError is what run raises when text=True
\* meets output that is not text in the locale's encoding.
ProbeErrors == {"FileNotFoundError", "TimeoutExpired", "OSError", "UnicodeDecodeError"}
ProbeRaises(kind) == [raised |-> kind, returncode |-> 0, stdout |-> <<>>]
ProbeCompletes(returncode, stdout) ==
    [raised |-> "none", returncode |-> returncode, stdout |-> stdout]
NoProbe == ProbeCompletes(0, <<>>)
ProbeOutputs ==
    {<<>>, <<[dir |-> RocksTree, exists |-> TRUE]>>, <<[dir |-> RocksTree, exists |-> FALSE]>>}
ExitStatuses == {0, 1}
Probes ==
    {ProbeRaises(kind) : kind \in ProbeErrors}
    \cup {ProbeCompletes(returncode, stdout) :
            returncode \in ExitStatuses, stdout \in ProbeOutputs}
\* the machine without LuaRocks, and the one whose LuaRocks reports its tree
NotInstalled == ProbeRaises("FileNotFoundError")
ReportsTree == ProbeCompletes(0, <<[dir |-> RocksTree, exists |-> TRUE]>>)

RECURSIVE ExistingDirs(_)
ExistingDirs(stdout) ==
    IF stdout = <<>> THEN <<>>
    ELSE (IF Head(stdout).exists THEN <<Head(stdout).dir>> ELSE <<>>)
         \o ExistingDirs(Tail(stdout))
\* _detect_luarocks on what the run did: the exception that leaves it, if
\* any, and the paths it returns
DetectLuarocks(ran) ==
    IF ran.raised # "none"
    THEN IF ran.raised \in {"TimeoutExpired", "FileNotFoundError", "OSError"}
         THEN [raised |-> "none", paths |-> <<>>]
         ELSE [raised |-> ran.raised, paths |-> <<>>]
    ELSE IF ran.returncode = 0 /\ ran.stdout # <<>>
    THEN [raised |-> "none", paths |-> ExistingDirs(ran.stdout)]
    ELSE [raised |-> "none", paths |-> <<>>]

\* ModuleResolver.__init__ / _build_search_paths, with the conventional
\* directories `existing` on disk and the run of luarocks doing `ran`
BuildSearchPaths(existing, ran) ==
    /\ res_phase = "new"
    /\ existing_locals' = existing
    /\ probe' = ran
    /\ LET luarocks == DetectLuarocks(ran)
       IN IF luarocks.raised # "none"
          THEN /\ res_phase' = "failed"
               /\ UNCHANGED <<luarocks_paths, search_paths>>
          ELSE /\ luarocks_paths' = luarocks.paths
               /\ search_paths' =
                     <<base_path>>
                     \o SelectSeq(local_dirs, LAMBDA local_dir : local_dir \in existing)
                     \o luarocks.paths
               /\ res_phase' = "built"
    /\ UNCHANGED <<disk, request, resolution>>

\* SearchFrom without the loop over C_EXTENSIONS
RECURSIVE SearchFrom(_, _, _)
SearchFromSourceOnly(i, module_name, module_path) ==
    IF i > Len(search_paths)
    THEN {ModuleNotFound(module_name, search_paths)}
    ELSE LET search_path == search_paths[i]
             lua_candidates == << Join(search_path, module_path \o LuaSuffix),
                                  Join(Join(search_path, module_path), InitLua) >>
         IN IF PathExists(lua_candidates[1]) THEN {Found(PathResolve(lua_candidates[1]))}
            ELSE IF PathExists(lua_candidates[2]) THEN {Found(PathResolve(lua_candidates[2]))}
            ELSE SearchFrom(i + 1, module_name, module_path)

\* the loop of resolve over search_paths from the i-th on: the outcomes it can
\* have (C_EXTENSIONS is a set, the order of its iteration is not fixed)
SearchFrom(i, module_name, module_path) ==
    IF i > Len(search_paths)
    THEN {ModuleNotFound(module_name, search_paths)}
    ELSE LET search_path == search_paths[i]
             lua_candidates == << Join(search_path, module_path \o LuaSuffix),
                                  Join(Join(search_path, module_path), InitLua) >>
             c_candidates == {Join(search_path, module_path \o ext) : ext \in C_EXTENSIONS}
         IN IF PathExists(lua_candidates[1]) THEN {Found(PathResolve(lua_candidates[1]))}
            ELSE IF PathExists(lua_candidates[2]) THEN {Found(PathResolve(lua_candidates[2]))}
            ELSE IF \E c_candidate \in c_candidates : PathExists(c_candidate)
            THEN {CModuleNotSupported(module_name, c_candidate) :
                     c_candidate \in {c \in c_candidates : PathExists(c)}}
            ELSE SearchFrom(i + 1, module_name, module_path)

\* ResolveRelative taking the resolver's base directory for the directory of
\* the requiring script
ResolveRelativeFromBase(module_name, from_script_path) ==
    LET base_dir == base_path
        target_path == PathResolve(Join(base_dir, module_name))
        candidates == IF HasLuaSuffix(target_path)
                      THEN <<target_path>>
                      ELSE << AddSuffix(target_path, LuaSuffix), target_path \o <<InitLua>> >>
        existing == {k \in 1 .. Len(candidates) : PathExists(candidates[k])}
        c_candidates == {AddSuffix(target_path, ext) : ext \in C_EXTENSIONS}
    IN IF existing # {}
       THEN {Found(PathResolve(candidates[CHOOSE k \in existing : \A j \in existing : k <= j]))}
       ELSE IF \E c_candidate \in c_candidates : PathExists(c_candidate)
       THEN {CModuleNotSupported(module_name, c_candidate) :
                c_candidate \in {c \in c_candidates : PathExists(c)}}
       ELSE {ModuleNotFound(module_name, <<base_dir>>)}

\* ResolveRelative without the test for a specifier that ends in .lua
ResolveRelativeNoSuffixTest(module_name, from_script_path) ==
    LET base_dir == Parent(from_script_path)
        target_path == PathResolve(Join(base_dir, module_name))
        candidates == << AddSuffix(target_path, LuaSuffix), target_path \o <<InitLua>> >>
        existing == {k \in 1 .. Len(candidates) : PathExists(candidates[k])}
        c_candidates == {AddSuffix(target_path, ext) : ext \in C_EXTENSIONS}
    IN IF existing # {}
       THEN {Found(PathResolve(candidates[CHOOSE k \in existing : \A j \in existing : k <= j]))}
       ELSE IF \E c_candidate \in c_candidates : PathExists(c_candidate)
       THEN {CModuleNotSupported(module_name, c_candidate) :
                c_candidate \in {c \in c_candidates : PathExists(c)}}
       ELSE {ModuleNotFound(module_name, <<base_dir>>)}

\* _resolve_relative(module_name, from_script_path): the outcomes it can have
ResolveRelative(module_name, from_script_path) ==
    LET base_dir == Parent(from_script_path)
        target_path == PathResolve(Join(base_dir, module_name))
        candidates == IF HasLuaSuffix(target_path)
                      THEN <<target_path>>
                      ELSE << AddSuffix(target_path, LuaSuffix), target_path \o <<InitLua>> >>
        existing == {k \in 1 .. Len(candidates) : PathExists(candidates[k])}
        c_candidates == {AddSuffix(target_path, ext) : ext \in C_EXTENSIONS}
    IN IF existing # {}
       THEN {Found(PathResolve(candidates[CHOOSE k \in existing : \A j \in existing : k <= j]))}
       ELSE IF \E c_candidate \in c_candidates : PathExists(c_candidate)
       THEN {CModuleNotSupported(module_name, c_candidate) :
                c_candidate \in {c \in c_candidates : PathExists(c)}}
       ELSE {ModuleNotFound(module_name, <<base_dir>>)}

\* resolve(module_name, from_script): the outcomes it can have
ResolveOutcomes(module_name, from_script) ==
    LET from_script_path == PathResolve(from_script)
    IN IF StartsWith(module_name, <<".", "/">>) \/ StartsWith(module_name, <<".", ".", "/">>)
       THEN ResolveRelative(module_name, from_script_path)
       ELSE SearchFrom(1, module_name, Replace(module_name, ".", "/"))

\* one call of resolve
Resolve(module_name, from_script) ==
    /\ res_phase = "built"
    /\ request' = [module_name |-> module_name, from_script |-> from_script]
    /\ resolution' \in ResolveOutcomes(module_name, from_script)
    /\ res_phase' = "resolved"
    /\ UNCHANGED <<disk, existing_locals, probe, luarocks_paths, search_paths>>

\* The module files the disk can hold: in the base directory, a directory
\* below it, the conventional directories and the LuaRocks tree, a module
\* a/m as a source file, a package directory or a native library.
ModuleDirs == <<base_path, base_path \o << <<"s", "u", "b">> >>>> \o local_dirs \o <<RocksTree>>
ModuleFiles ==
    << << <<"a">>, <<"m", ".", "l", "u", "a">> >>,
       << <<"a">>, <<"m">>, InitLua >>,
       << <<"a">>, <<"m", ".", "s", "o">> >>,
       << <<"a">>, <<"m", ".", "d", "l", "l">> >>,
       << <<"a">>, <<"m", ".", "d", "y", "l", "i", "b">> >> >>
DiskFile(d, k) == ModuleDirs[d] \o ModuleFiles[k]
DiskIndex == (1 .. Len(ModuleDirs)) \X (1 .. Len(ModuleFiles))
\* the position of a file in the order the disk is filled
DiskRank(d, k) == (d - 1) * Len(ModuleFiles) + k
\* the requiring scripts and the specifiers written in them
FromScripts ==
    { base_path \o << <<"m", "a", "i", "n", ".", "l", "u", "a">> >>,
      base_path \o << <<"s", "u", "b">>, <<"x", ".", "l", "u", "a">> >> }
Specifiers ==
    { <<"a", ".", "m">>,
      <<".", "/", "a", "/", "m">>,
      <<".", ".", "/", "a", "/", "m">>,
      <<".", "/", "a", "/", "m", ".", "l", "u", "a">> }

\* The environment creates a module file. Files are created in the order of
\* their rank, so each disk is built once, on the machine without LuaRocks
\* and on the one whose LuaRocks reports its tree.
CreateFile(d, k) ==
    /\ res_phase = "built"
    /\ probe \in {NotInstalled, ReportsTree}
    /\ Cardinality(disk) < MaxDiskFiles
    /\ \A e \in DiskIndex : DiskFile(e[1], e[2]) \in disk => DiskRank(e[1], e[2]) < DiskRank(d, k)
    /\ disk' = disk \cup {DiskFile(d, k)}
    /\ UNCHANGED <<existing_locals, probe, luarocks_paths, search_paths, res_phase, request,
                   resolution>>

ResIdle ==
    /\ disk = {}
    /\ existing_locals = {}
    /\ probe = NoProbe
    /\ luarocks_paths = <<>>
    /\ search_paths = <<>>
    /\ res_phase = "idle"
    /\ request = [module_name |-> <<>>, from_script |-> <<>>]
    /\ resolution = NoResolution

\* ------------------------------------------------------------------------
\* compile_lua_script
\* ------------------------------------------------------------------------
Luastatic == <<"l", "u", "a", "s", "t", "a", "t", "i", "c">>
\* Path.cwd()
cwd == << <<"w">> >>
\* str(path) of an absolute Path
RECURSIVE PathStr(_)
PathStr(path) == IF path = <<>> THEN <<>> ELSE <<"/">> \o Head(path) \o PathStr(Tail(path))
\* Path(text).resolve()
ResolveArg(text) == PathResolve(Join(cwd, text))

\* os.name
os_name == "posix"
\* ' '.join(command)
RECURSIVE JoinSpace(_)
JoinSpace(words) ==
    IF words = <<>> THEN <<>>
    ELSE IF Len(words) = 1 THEN Head(words)
    ELSE Head(words) \o <<" ">> \o JoinSpace(Tail(words))
\* Path.name and Path.stem
Name(path) == path[Len(path)]
Stem(path) ==
    LET name == Name(path)
        dots == {i \in 2 .. Len(name) : name[i] = "."}
    IN IF dots = {} THEN name
       ELSE SubSeq(name, 1, (CHOOSE i \in dots : \A j \in dots : j <= i) - 1)
\* the directory the build runs in and the file it is expected to leave
OutputDir(output) == IF output # <<>> THEN Parent(ResolveArg(output)) ELSE cwd
ExpectedOutput(entry_path, output) ==
    IF output # <<>>
    THEN ResolveArg(output)
    ELSE IF os_name = "nt"
    THEN OutputDir(output) \o <<Stem(entry_path) \o <<".", "e", "x", "e">>>>
    ELSE OutputDir(output) \o <<Stem(entry_path)>>

\* subprocess.CompletedProcess
Completed(returncode, stderr) == [returncode |-> returncode, stderr |-> stderr]
NotRun == [returncode |-> 0, stderr |-> <<>>]

NoResult == [kind |-> "none", text |-> <<>>, returncode |-> 0, stderr |-> <<>>]
\* an exception with the arguments it is raised with, or the value returned
Raised(kind, text, returncode, stderr) ==
    [kind |-> kind, text |-> text, returncode |-> returncode, stderr |-> stderr]

\* verify_environment, called first by compile_lua_script
VerifyEnvironment ==
    /\ eng_phase = "verify"
    /\ IF "luastatic" \notin tools
       THEN /\ eng_result' = Raised("LuastaticNotFoundError", <<>>, 0, <<>>)
            /\ eng_phase' = "done"
       ELSE IF "gcc" \notin tools
       THEN /\ eng_result' = Raised("CompilerNotFoundError", <<"g", "c", "c">>, 0, <<>>)
            /\ eng_phase' = "done"
       ELSE /\ eng_phase' = "validate"
            /\ UNCHANGED eng_result
    /\ UNCHANGED <<tools, eng_disk, eng_args, command, dep_index, run_result, invoked>>

\* the test of the entry script and the first two elements of the command
ValidateEntry ==
    /\ eng_phase = "validate"
    /\ LET entry_path == ResolveArg(eng_args.entry_script)
       IN IF entry_path \notin eng_disk
          THEN /\ eng_result' = Raised("ScriptNotFoundError", eng_args.entry_script, 0, <<>>)
               /\ eng_phase' = "done"
               /\ UNCHANGED <<command, dep_index>>
          ELSE /\ command' = <<Luastatic, PathStr(entry_path)>>
               /\ dep_index' = 1
               /\ eng_phase' = "deps"
               /\ UNCHANGED eng_result
    /\ UNCHANGED <<tools, eng_disk, eng_args, run_result, invoked>>

\* AddDependency without the test that the dependency exists
AddDependencyUnchecked ==
    /\ eng_phase = "deps"
    /\ dep_index <= Len(eng_args.dependencies)
    /\ LET dep == eng_args.dependencies[dep_index]
           dep_path == ResolveArg(dep)
       IN command' = Append(command, PathStr(dep_path))
    /\ dep_index' = dep_index + 1
    /\ UNCHANGED <<tools, eng_disk, eng_args, eng_phase, eng_result, run_result, invoked>>

\* one iteration of the loop over dependencies
AddDependency ==
    /\ eng_phase = "deps"
    /\ dep_index <= Len(eng_args.dependencies)
    /\ LET dep == eng_args.dependencies[dep_index]
           dep_path == ResolveArg(dep)
       IN command' = IF dep_path \notin eng_disk
                     THEN command
                     ELSE Append(command, PathStr(dep_path))
    /\ dep_index' = dep_index + 1
    /\ UNCHANGED <<tools, eng_disk, eng_args, eng_phase, eng_result, run_result, invoked>>

\* RunCommand with the test of the output file before the test of the exit code
RunCommandOutputFirst(returncode, stderr, written) ==
    /\ eng_phase = "deps"
    /\ dep_index > Len(eng_args.dependencies)
    /\ invoked' = Append(invoked, command)
    /\ run_result' = Completed(returncode, stderr)
    /\ LET expected_output ==
               ExpectedOutput(ResolveArg(eng_args.entry_script), eng_args.output)
       IN /\ eng_disk' = IF written THEN eng_disk \cup {expected_output} ELSE eng_disk
          /\ eng_result' =
                IF expected_output \notin eng_disk'
                THEN Raised("OutputFileNotFoundError", PathStr(expected_output), 0, <<>>)
                ELSE IF returncode # 0
                THEN Raised("CompilationFailedError", JoinSpace(command), returncode, stderr)
                ELSE Raised("returned", PathStr(expected_output), 0, <<>>)
    /\ eng_phase' = "done"
    /\ UNCHANGED <<tools, eng_args, command, dep_index>>

\* subprocess.run(command) ending with `returncode` and `stderr`, having
\* written the output file or not, and the tests after it
RunCommand(returncode, stderr, written) ==
    /\ eng_phase = "deps"
    /\ dep_index > Len(eng_args.dependencies)
    /\ invoked' = Append(invoked, command)
    /\ run_result' = Completed(returncode, stderr)
    /\ LET expected_output ==
               ExpectedOutput(ResolveArg(eng_args.entry_script), eng_args.output)
       IN /\ eng_disk' = IF written THEN eng_disk \cup {expected_output} ELSE eng_disk
          /\ eng_result' =
                IF returncode # 0
                THEN Raised("CompilationFailedError", JoinSpace(command), returncode, stderr)
                ELSE IF expected_output \notin eng_disk'
                THEN Raised("OutputFileNotFoundError", PathStr(expected_output), 0, <<>>)
                ELSE Raised("returned", PathStr(expected_output), 0, <<>>)
    /\ eng_phase' = "done"
    /\ UNCHANGED <<tools, eng_args, command, dep_index>>

\* The script files a call can meet and the ways the caller names them:
\* absolute, relative to the working directory, through a directory and back.
ScriptFiles ==
    << [path |-> << <<"w">>, <<"m", ".", "l", "u", "a">> >>,
        text |-> <<"/", "w", "/", "m", ".", "l", "u", "a">>],
       [path |-> << <<"w">>, <<"a", ".", "l", "u", "a">> >>,
        text |-> <<"/", "w", "/", "a", ".", "l", "u", "a">>],
       [path |-> << <<"w">>, <<"b", ".", "l", "u", "a">> >>,
        text |-> <<"/", "w", "/", "b", ".", "l", "u", "a">>],
       [path |-> << <<"w">>, <<"c", ".", "l", "u", "a">> >>,
        text |-> <<"/", "w", "/", "c", ".", "l", "u", "a">>] >>
EntryArg == [text |-> <<"m", ".", "l", "u", "a">>, file |-> 1]
DepArgs ==
    { [text |-> <<"/", "w", "/", "a", ".", "l", "u", "a">>, file |-> 2],
      [text |-> <<"s", "/", ".", ".", "/", "a", ".", "l", "u", "a">>, file |-> 2],
      [text |-> <<"b", ".", "l", "u", "a">>, file |-> 3],
      [text |-> <<".", "/", "c", ".", "l", "u", "a">>, file |-> 4] }
\* the values of the output argument: none, or a file in a directory of its own
OutputArgs == {<<>>, <<"o", "/", "x">>}
\* an executable left in the working directory by an earlier build
StaleOutput == cwd \o << <<"m">> >>
\* the exit codes of the build tool
ExitCodes == {0, 1, 2}
\* the diagnostics of the build tool
Diagnostics == {<<>>, <<"e">>}

EngIdle ==
    /\ tools = {}
    /\ eng_disk = {}
    /\ eng_args = [entry_script |-> <<>>, dependencies |-> <<>>, output |-> <<>>]
    /\ command = <<>>
    /\ dep_index = 0
    /\ eng_phase = "idle"
    /\ eng_result = NoResult
    /\ run_result = NotRun
    /\ invoked = <<>>

\* ------------------------------------------------------------------------
\* The discovery pass over every file tree
\* ------------------------------------------------------------------------
LexIdle ==
    /\ source = <<>>
    /\ pos = 0
    /\ line = 1
    /\ state = "NORMAL"
    /\ long_bracket_level = 0
    /\ requires = <<>>
    /\ lex_result = "idle"
    /\ lex_error = [line_number |-> 0, reason |-> "none", start |-> 0, stop |-> 0]
    /\ lex_log = <<>>

Init ==
    /\ tree = EmptyTree
    /\ entry_exists \in BOOLEAN
    /\ phase = "setup"
    /\ manual = FALSE
    /\ max_dependencies = 0
    /\ visited = {}
    /\ visiting = {}
    /\ stack = <<>>
    /\ dependency_tree = <<>>
    /\ frames = <<>>
    /\ result = "none"
    /\ manifest = <<>>
    /\ error = NoError
    /\ done_order = <<>>
    /\ calls = <<>>
    /\ io = NoEffects
    /\ LexIdle
    /\ ResIdle
    /\ EngIdle

Targets == {Resolved(f) : f \in Files} \cup {Unresolved(k) : k \in ResolveFailures}

Next ==
    \/ \E f \in Files, r \in Targets : WriteRequire(f, r) /\ UNCHANGED <<lexVars, resVars, engVars>>
    \/ \E f \in Files : WriteDynamic(f) /\ UNCHANGED <<lexVars, resVars, engVars>>
    \/ \E manual_mode \in BOOLEAN, max \in 0 .. MaxLimit :
          AnalyzeDependencies(manual_mode, max) /\ UNCHANGED <<lexVars, resVars, engVars>>
    \/ Repeat /\ UNCHANGED <<lexVars, resVars, engVars>>
    \/ Analyze /\ UNCHANGED <<lexVars, resVars, engVars>>
    \/ ResolveNext /\ UNCHANGED <<lexVars, resVars, engVars>>
    \/ RecordScript /\ UNCHANGED <<lexVars, resVars, engVars>>
    \/ AnalyzeReturn /\ UNCHANGED <<lexVars, resVars, engVars>>
    \/ Propagate /\ UNCHANGED <<lexVars, resVars, engVars>>

Spec == Init /\ [][Next]_vars

\* one step of the interpreter inside analyze: a call of analyze_dependencies
\* that has constructed its analyzer runs on, statement after statement,
\* until it returns or raises
PassStep ==
    /\ Analyze \/ ResolveNext \/ RecordScript \/ AnalyzeReturn \/ Propagate
    /\ UNCHANGED <<lexVars, resVars, engVars>>

\* one call of analyze_dependencies in automatic mode, with the lowest or the
\* highest ceiling, on every file tree
LiveNext ==
    \/ \E f \in Files, r \in Targets : WriteRequire(f, r) /\ UNCHANGED <<lexVars, resVars, engVars>>
    \/ \E f \in Files : WriteDynamic(f) /\ UNCHANGED <<lexVars, resVars, engVars>>
    \/ \E max \in {0, MaxLimit} :
          AnalyzeDependencies(FALSE, max) /\ UNCHANGED <<lexVars, resVars, engVars>>
    \/ PassStep

SpecLive == Init /\ [][LiveNext]_vars /\ WF_vars(PassStep)

\* one DependencyAnalyzer on which analyze is called more than once
ReuseNext ==
    \/ \E f \in Files, r \in Targets : WriteRequire(f, r) /\ UNCHANGED <<lexVars, resVars, engVars>>
    \/ \E f \in Files : WriteDynamic(f) /\ UNCHANGED <<lexVars, resVars, engVars>>
    \/ \E max \in {0, MaxLimit} :
          AnalyzeDependencies(FALSE, max) /\ UNCHANGED <<lexVars, resVars, engVars>>
    \/ AnalyzeAgain /\ UNCHANGED <<lexVars, resVars, engVars>>
    \/ PassStep

SpecReuse == Init /\ [][ReuseNext]_vars

\* ------------------------------------------------------------------------
\* One scan of every source text
\* ------------------------------------------------------------------------
\* The source texts: up to MaxFrags fragments of one vocabulary, concatenated.
StringLiteral == <<"\"", "a", "\"">>
RequireLiteral == Keyword \o StringLiteral
\* require hidden in comments and strings, newlines
CommentVocabulary == {Keyword, StringLiteral, <<"-", "-">>, <<"\n">>, <<"'">>}
\* quotes and escapes
QuoteVocabulary == {Keyword, <<"\"">>, <<"\\">>, <<"a">>, <<"'">>}
\* long-bracket strings of level 0 and 1
BracketVocabulary == {Keyword, StringLiteral, <<"[", "=", "[">>, <<"]", "]">>, <<"]", "=", "]">>}
\* block comments of level 1
BlockVocabulary == {RequireLiteral, <<"-", "-">>, <<"[", "=", "[">>, <<"]", "]">>, <<"]", "=", "]">>}
\* call syntax, identifiers, concatenation
CallVocabulary == {Keyword, StringLiteral, <<"(">>, <<"x">>, <<" ", ".", ".">>}
\* member access and identifiers around the keyword
MemberVocabulary == {Keyword, StringLiteral, <<".">>, <<":">>, <<"_">>}
\* comment openers with and without a whole long bracket behind them
DashVocabulary == {RequireLiteral, <<"-", "-">>, <<"[", "=">>, <<"[">>, <<"\n">>}
Vocabularies ==
    {CommentVocabulary, QuoteVocabulary, BracketVocabulary, BlockVocabulary, CallVocabulary,
     MemberVocabulary, DashVocabulary}

RECURSIVE Flatten(_)
Flatten(fs) == IF fs = <<>> THEN <<>> ELSE Head(fs) \o Flatten(Tail(fs))
PassIdle ==
    /\ tree = EmptyTree
    /\ entry_exists = TRUE
    /\ phase = "setup"
    /\ manual = FALSE
    /\ max_dependencies = 0
    /\ visited = {}
    /\ visiting = {}
    /\ stack = <<>>
    /\ dependency_tree = <<>>
    /\ frames = <<>>
    /\ result = "none"
    /\ manifest = <<>>
    /\ error = NoError
    /\ done_order = <<>>
    /\ calls = <<>>
    /\ io = NoEffects

\* LuaLexer(source_code, file_path) on one of the source texts
LexInit ==
    /\ \E voc \in Vocabularies : \E n \in 0 .. MaxFrags : \E fs \in [1 .. n -> voc] :
          source = Flatten(fs)
    /\ pos = 0
    /\ line = 1
    /\ state = "NORMAL"
    /\ long_bracket_level = 0
    /\ requires = <<>>
    /\ lex_result = "scanning"
    /\ lex_error = [line_number |-> 0, reason |-> "none", start |-> 0, stop |-> 0]
    /\ lex_log = <<>>
    /\ PassIdle
    /\ ResIdle
    /\ EngIdle

LexNext ==
    \/ LexStep /\ UNCHANGED <<passVars, resVars, engVars>>
    \/ LexReturn /\ UNCHANGED <<passVars, resVars, engVars>>

SpecLexer == LexInit /\ [][LexNext]_vars

\* ------------------------------------------------------------------------
\* One resolver, one disk, one call of resolve
\* ------------------------------------------------------------------------
\* ModuleResolver(base_path) about to build its search paths
ResInit ==
    /\ disk = {}
    /\ existing_locals = {}
    /\ probe = NoProbe
    /\ luarocks_paths = <<>>
    /\ search_paths = <<>>
    /\ res_phase = "new"
    /\ request = [module_name |-> <<>>, from_script |-> <<>>]
    /\ resolution = NoResolution
    /\ PassIdle
    /\ LexIdle
    /\ EngIdle

ResNext ==
    \/ \E existing \in SUBSET Elems(local_dirs), ran \in Probes :
          BuildSearchPaths(existing, ran) /\ UNCHANGED <<passVars, lexVars, engVars>>
    \/ \E e \in DiskIndex : CreateFile(e[1], e[2]) /\ UNCHANGED <<passVars, lexVars, engVars>>
    \/ \E module_name \in Specifiers, from_script \in FromScripts :
          Resolve(module_name, from_script) /\ UNCHANGED <<passVars, lexVars, engVars>>

SpecResolver == ResInit /\ [][ResNext]_vars

\* ------------------------------------------------------------------------
\* One call of compile_lua_script
\* ------------------------------------------------------------------------
\* compile_lua_script(entry_script, dependencies) is called
EngInit ==
    /\ tools \in SUBSET {"luastatic", "gcc"}
    /\ eng_disk \in SUBSET ({ScriptFiles[n].path : n \in 1 .. Len(ScriptFiles)}
                             \cup {StaleOutput})
    /\ \E n \in 0 .. MaxDeps : \E deps \in [1 .. n -> {r.text : r \in DepArgs}] :
          \E output \in OutputArgs :
             eng_args = [entry_script |-> EntryArg.text, dependencies |-> deps,
                         output |-> output]
    /\ command = <<>>
    /\ dep_index = 0
    /\ eng_phase = "verify"
    /\ eng_result = NoResult
    /\ run_result = NotRun
    /\ invoked = <<>>
    /\ PassIdle
    /\ LexIdle
    /\ ResIdle

EngNext ==
    \/ VerifyEnvironment /\ UNCHANGED <<passVars, lexVars, resVars>>
    \/ ValidateEntry /\ UNCHANGED <<passVars, lexVars, resVars>>
    \/ AddDependency /\ UNCHANGED <<passVars, lexVars, resVars>>
    \/ \E returncode \in ExitCodes, stderr \in Diagnostics, written \in BOOLEAN :
          RunCommand(returncode, stderr, written) /\ UNCHANGED <<passVars, lexVars, resVars>>

SpecEngine == EngInit /\ [][EngNext]_vars

\* ------------------------------------------------------------------------
\* Properties of the discovery pass
\* ------------------------------------------------------------------------
\* the files reachable from the set S along succ, S included
RECURSIVE ReachFrom(_, _)
ReachFrom(succ, S) ==
    LET step == S \cup UNION {succ[f] : f \in S}
    IN IF step = S THEN S ELSE ReachFrom(succ, step)
\* the files f depends on, directly or transitively
Descendants(succ, f) == ReachFrom(succ, succ[f])

\* the reference graph of the file tree
TreeSucc == [f \in Files |-> {r.path : r \in {x \in RefsOf(f) : x.err = "none"}}]
\* the recorded direct-dependency lists
RecordedSucc == [f \in Files |-> Elems(TreeGet(dependency_tree, f))]

Reachable == ReachFrom(TreeSucc, {entry_script})
\* every reachable file scans and every require of it resolves
CleanTree ==
    \A f \in Reachable : ~tree[f].dynamic /\ \A r \in RefsOf(f) : r.err = "none"
HasCycle == \E f \in Reachable : f \in Descendants(TreeSucc, f)
\* the distinct discovered files other than the entry
TrueTotal == Cardinality(Reachable \ {entry_script})

AnalyzeReturned == phase = "done" /\ ~manual /\ entry_exists
AnalyzeSucceeded == AnalyzeReturned /\ result = "ok"

\* C1: on a successful return of analyze, every file the recorded lists make a
\* manifest file depend on, directly or transitively, stands in the manifest
\* at a strictly smaller index.
C1_DependenciesFirst ==
    AnalyzeSucceeded =>
        \A i \in 1 .. Len(manifest) :
            \A d \in Descendants(RecordedSucc, manifest[i]) :
                \E j \in 1 .. (i - 1) : manifest[j] = d

\* a successful pass over a chain entry -> f -> g -> h
C1_Witness ==
    /\ AnalyzeSucceeded
    /\ \E f \in Elems(manifest) :
          Descendants(RecordedSucc, f) \ RecordedSucc[f] # {}

\* C2: on a successful return of analyze the manifest lists every discovered
\* file other than the entry exactly once, nothing else, and never the entry.
C2_ManifestExactlyOnce ==
    AnalyzeSucceeded =>
        /\ Elems(manifest) = Reachable \ {entry_script}
        /\ Elems(manifest) = visited \ {entry_script}
        /\ Cardinality(Elems(manifest)) = Len(manifest)
        /\ entry_script \notin Elems(manifest)

\* a successful pass over a diamond: two files share a direct dependency
C2_Witness ==
    /\ AnalyzeSucceeded
    /\ \E x, y, z \in Elems(manifest) :
          x # y /\ z \in RecordedSucc[x] /\ z \in RecordedSucc[y]

\* C3: when every reachable file scans and resolves and the reference graph
\* reachable from the entry has a cycle, analyze ends with
\* CircularDependencyError and returns no manifest.
C3_CycleRaises ==
    (AnalyzeReturned /\ CleanTree /\ HasCycle) =>
        /\ result = "CircularDependencyError"
        /\ manifest = <<>>

\* an indirect cycle was found below the entry
C3_Witness ==
    /\ AnalyzeReturned /\ CleanTree /\ HasCycle
    /\ result = "CircularDependencyError"
    /\ Len(error.chain) >= 3
    /\ error.chain[1] # entry_script

\* C4: a tree that analyses without error and has N discovered files other
\* than the entry succeeds when max_dependencies >= N and otherwise fails with
\* DependencyLimitExceededError carrying N and max_dependencies.
C4_LimitExact ==
    (AnalyzeReturned /\ CleanTree /\ ~HasCycle) =>
        IF max_dependencies >= TrueTotal
        THEN result = "ok"
        ELSE /\ result = "DependencyLimitExceededError"
             /\ error.current_count = TrueTotal
             /\ error.limit = max_dependencies
             /\ manifest = <<>>

\* a diamond of three files checked against a ceiling of two
C4_Witness ==
    /\ AnalyzeReturned /\ CleanTree /\ ~HasCycle
    /\ result = "DependencyLimitExceededError"
    /\ TrueTotal = max_dependencies + 1
    /\ TrueTotal > Cardinality(TreeSucc[entry_script])
    /\ \E x, y \in Files : x # y /\ TreeSucc[x] \cap TreeSucc[y] # {}

CallReturned == phase = "done"
Failures == {"ScriptNotFoundError", "DynamicRequireError", "ModuleNotFoundError",
             "CModuleNotSupportedError", "CircularDependencyError",
             "DependencyLimitExceededError"}

\* C12: a call of analyze_dependencies repeated with the same arguments on the
\* unchanged tree ends as the earlier call did and returns the same manifest,
\* the same paths in the same order.
C12_RepeatedRunSameManifest ==
    CallReturned =>
        \A i \in 1 .. Len(calls) :
            /\ calls[i].result = result
            /\ calls[i].manifest = manifest

\* a repeated successful pass whose manifest is not in the order of the
\* files' names
C12_Witness ==
    /\ CallReturned
    /\ calls # <<>>
    /\ ~manual
    /\ result = "ok"
    /\ \E i, j \in 1 .. Len(manifest) : i < j /\ manifest[i] > manifest[j]

\* C13: in manual mode analyze_dependencies returns the empty manifest
\* whatever the entry and the tree are, raises nothing, reads no file, builds
\* no resolver and runs no search-path probe.
C13_ManualModeSkipsEverything ==
    /\ (CallReturned /\ manual) =>
          /\ result = "ok"
          /\ manifest = <<>>
          /\ error = NoError
          /\ io = NoEffects
    /\ manual => phase \in {"setup", "done"}

\* manual mode on a tree that has a cycle and a file with a dynamic require
C13_Witness ==
    /\ CallReturned
    /\ manual
    /\ result = "ok"
    /\ \E f \in Files : f \in Descendants(TreeSucc, f)
    /\ \E f \in Files : tree[f].dynamic

\* C18: while an exception is in flight nothing is read, built or resolved and
\* the analyzer records nothing; it reaches the caller as it was raised; a
\* call that ends with a failure returns no manifest.
C18_FailFast ==
    [][/\ phase = "raising" =>
             /\ io' = io
             /\ error' = error
             /\ visited' = visited
             /\ dependency_tree' = dependency_tree
             /\ manifest' = <<>>
             /\ phase' \in {"raising", "done"}
             /\ phase' = "done" => result' = error.kind
       /\ (phase' = "done" /\ result' # "ok") =>
             /\ result' \in Failures
             /\ error'.kind = result'
             /\ manifest' = <<>>]_vars

\* a pass that failed below the entry and left a reachable file unread
C18_Witness ==
    /\ CallReturned
    /\ result \in Failures \ {"ScriptNotFoundError", "DependencyLimitExceededError"}
    /\ Len(io.reads) >= 2
    /\ \E g \in Reachable : g \notin Elems(io.reads)

\* C19: when the entry does not exist, analyze_dependencies (not in manual
\* mode) fails with ScriptNotFoundError carrying the entry path; no file is
\* read, no resolver is built and no probe is run.
C19_MissingEntryFailsFirst ==
    /\ (CallReturned /\ ~manual /\ ~entry_exists) =>
          /\ result = "ScriptNotFoundError"
          /\ error.kind = "ScriptNotFoundError"
          /\ error.path = entry_script
          /\ manifest = <<>>
    /\ ~entry_exists =>
          /\ io = NoEffects
          /\ phase \in {"setup", "done"}

\* the call on a missing entry has failed
C19_Witness ==
    /\ CallReturned
    /\ ~manual
    /\ ~entry_exists
    /\ result = "ScriptNotFoundError"
    /\ io.probes = 0

LimitFailure == "DependencyLimitExceededError"
\* some reachable file does not scan, has a reference that does not resolve,
\* or lies on a cycle
OtherFailureInTree == ~CleanTree \/ HasCycle

\* C23: DependencyLimitExceededError is raised only when the traversal has
\* finished with every reachable file read and Done and nothing open, and it
\* carries the full total; a tree holding any other failure ends with a
\* failure that is not the limit failure, whatever the ceiling.
C23_LimitOnlyAfterFullTraversal ==
    /\ error.kind = LimitFailure =>
          /\ frames = <<>> /\ stack = <<>> /\ visiting = {}
          /\ visited = Reachable
          /\ Elems(io.reads) = Reachable
          /\ error.current_count = TrueTotal
          /\ ~OtherFailureInTree
    /\ (AnalyzeReturned /\ OtherFailureInTree) =>
          result \in Failures \ {LimitFailure}

\* the limit failure of a pass that went on for two more files after the
\* ceiling was passed
C23_Witness ==
    /\ AnalyzeReturned
    /\ result = LimitFailure
    /\ error.current_count >= max_dependencies + 2
    /\ Len(done_order) = error.current_count + 1

\* C24: the chain carried by CircularDependencyError starts and ends with the
\* file that was entered again; without its last element it is the open path
\* from that file's first occurrence to the top, in stack order; each element
\* directly references the next; a file that references itself gives [f, f].
C24_ChainIsOpenPathCycle ==
    error.kind = "CircularDependencyError" =>
        LET chain == error.chain
            n == Len(chain)
        IN /\ n >= 2
           /\ chain[1] = chain[n]
           /\ \E i \in 1 .. Len(stack) :
                 /\ stack[i] = chain[n]
                 /\ \A j \in 1 .. (i - 1) : stack[j] # chain[n]
                 /\ SubSeq(chain, 1, n - 1) = SubSeq(stack, i, Len(stack))
           /\ \A k \in 1 .. (n - 1) : chain[k + 1] \in TreeSucc[chain[k]]
           /\ Cardinality(Elems(chain)) = n - 1
           /\ Top(stack) = chain[n] => chain = <<chain[n], chain[n]>>

\* a cycle of two files found below the entry: the open path is longer than
\* the cycle
C24_Witness ==
    /\ AnalyzeReturned
    /\ result = "CircularDependencyError"
    /\ Len(error.chain) = 3
    /\ Len(stack) = 3
    /\ stack[1] = entry_script
    /\ error.chain[1] = stack[2]

\* The post-order of the file tree: below a file, the files its require
\* statements resolve to, in source order, each before the file itself and
\* none twice.
RECURSIVE PostOrder(_, _)
RECURSIVE PostOrderEach(_, _, _)
PostOrder(f, out) ==
    IF f \in Elems(out) THEN out ELSE Append(PostOrderEach(tree[f].refs, 1, out), f)
PostOrderEach(refs, i, out) ==
    IF i > Len(refs) THEN out ELSE PostOrderEach(refs, i + 1, PostOrder(refs[i].path, out))

\* C25: the manifest of a successful pass is the post-order of the depth-first
\* traversal from the entry that follows each file's references in first-seen
\* source order and skips files already visited, without the entry, which comes last.
C25_ManifestIsPostOrder ==
    AnalyzeSucceeded =>
        Append(manifest, entry_script) = PostOrder(entry_script, <<>>)

\* the entry requires x then y and y requires z: the manifest is x, z, y
C25_Witness ==
    /\ AnalyzeSucceeded
    /\ Len(manifest) = 3
    /\ tree[entry_script].refs = <<Resolved(manifest[1]), Resolved(manifest[3])>>
    /\ tree[manifest[3]].refs = <<Resolved(manifest[2])>>

\* the state of a file in the pass
Status(f) == IF f \in visited THEN "Done" ELSE IF f \in visiting THEN "Visiting" ELSE "Unvisited"
StatusNext(f) ==
    IF f \in visited' THEN "Done" ELSE IF f \in visiting' THEN "Visiting" ELSE "Unvisited"
InPass == phase \in {"constructed", "running", "raising"}
NoRepeats(seq) == Cardinality(Elems(seq)) = Len(seq)
\* the next reference of the innermost activation resolves to a Done file
AtDoneFile ==
    /\ phase = "running"
    /\ frames # <<>>
    /\ Top(frames).next <= Len(Top(frames).requires)
    /\ Top(frames).requires[Top(frames).next].err = "none"
    /\ Top(frames).requires[Top(frames).next].path \in visited

\* C26: during a pass a file only moves Unvisited -> Visiting -> Done; no
\* file is read more than once; a Done file is neither read again nor put
\* back on the open path, and the step that reaches a Done file again leaves
\* visited, visiting, the stack, the recorded lists and the reads as they were.
C26_StatusOnlyForward ==
    /\ [](/\ NoRepeats(io.reads)
          /\ NoRepeats(stack)
          /\ Elems(stack) = visiting
          /\ visited \cap visiting = {})
    /\ [][/\ InPass =>
              \A f \in Files :
                 \/ StatusNext(f) = Status(f)
                 \/ Status(f) = "Unvisited" /\ StatusNext(f) = "Visiting"
                 \/ Status(f) = "Visiting" /\ StatusNext(f) = "Done"
          /\ InPass =>
              \A f \in visited : (io'.reads = io.reads) \/ (Top(io'.reads) # f)
          /\ AtDoneFile =>
              /\ UNCHANGED <<visited, visiting, stack, dependency_tree, done_order>>
              /\ io'.reads = io.reads
              /\ Len(frames') = Len(frames)
              /\ phase' = "running"]_vars

\* a file recorded as a dependency of a Done file has just been reached again
\* from the innermost activation, having been read once
C26_Witness ==
    /\ phase = "running"
    /\ frames # <<>>
    /\ Top(frames).dependencies # <<>>
    /\ LET d == Top(Top(frames).dependencies)
       IN /\ d \in visited
          /\ (\E g \in DOMAIN dependency_tree : d \in Elems(dependency_tree[g]))
          /\ Cardinality({i \in 1 .. Len(io.reads) : io.reads[i] = d}) = 1

\* a dependency and everything below it in the file tree
Subtree(d) == ReachFrom(TreeSucc, {d})
\* the dependencies of an activation whose analysis has returned: all of them
\* in the innermost activation of a running pass, all but the last otherwise
ReturnedFrom(k) ==
    IF phase = "running" /\ k = Len(frames)
    THEN frames[k].dependencies
    ELSE Pop(frames[k].dependencies)

\* C27: in every activation of _analyze_recursive, each dependency found by
\* an earlier reference has its whole subtree Done before the next reference
\* is resolved, also at the moment a later reference fails; an activation
\* below the innermost one waits in the dependency it found last; and once a
\* failure is in flight nothing more is resolved or read.
C27_SubtreeDoneBeforeNextReference ==
    /\ [](\A k \in 1 .. Len(frames) :
             /\ \A d \in Elems(ReturnedFrom(k)) : Subtree(d) \subseteq visited
             /\ (phase = "running" /\ k < Len(frames)) =>
                   /\ frames[k].dependencies # <<>>
                   /\ Top(frames[k].dependencies) = frames[k + 1].script_path)
    /\ [][phase = "raising" =>
              /\ io'.resolves = io.resolves
              /\ io'.reads = io.reads
              /\ \A k \in 1 .. Len(frames') : frames'[k].next = frames[k].next]_vars

\* the innermost activation is about to resolve its second reference after
\* the dependency of its first one, and that dependency's own dependency, are Done
C27_Witness ==
    /\ phase = "running"
    /\ frames # <<>>
    /\ Top(frames).next = 2
    /\ Top(frames).next <= Len(Top(frames).requires)
    /\ Len(Top(frames).dependencies) = 1
    /\ Cardinality(Subtree(Top(frames).dependencies[1])) >= 2
    /\ Subtree(Top(frames).dependencies[1]) \subseteq visited

\* the paths a sequence of references resolves to, each once, in the order
\* of the first reference that resolves to it
RECURSIVE FirstSeen(_)
FirstSeen(refs) ==
    IF refs = <<>> THEN <<>>
    ELSE LET before == FirstSeen(Pop(refs))
             path == Top(refs).path
         IN IF path \in Elems(before) THEN before ELSE Append(before, path)
\* the recursive calls made from the activation of f, in order
RecursionsFrom(f) ==
    LET made == SelectSeq(io.recursions, LAMBDA call : call[1] = f)
    IN [i \in 1 .. Len(made) |-> made[i][2]]

\* C28: the list recorded for an analysed file holds each path its references
\* resolve to once, in the order of the first reference resolving to it, and
\* _analyze_recursive was called from that file once for each of them; the
\* same holds of the list under construction in every open activation.
C28_OneEdgePerResolvedPath ==
    /\ \A f \in DOMAIN dependency_tree :
          /\ dependency_tree[f] = FirstSeen(tree[f].refs)
          /\ NoRepeats(dependency_tree[f])
          /\ RecursionsFrom(f) = dependency_tree[f]
    /\ \A k \in 1 .. Len(frames) :
          /\ frames[k].dependencies =
                FirstSeen(SubSeq(frames[k].requires, 1, frames[k].next - 1))
          /\ RecursionsFrom(frames[k].script_path) = frames[k].dependencies

\* a file was recorded with two dependencies out of three references, the
\* third resolving to the path of the first
C28_Witness ==
    \E f \in DOMAIN dependency_tree :
        /\ Len(tree[f].refs) = 3
        /\ tree[f].refs[3] = tree[f].refs[1]
        /\ tree[f].refs[2] # tree[f].refs[1]
        /\ Len(dependency_tree[f]) = 2

Keys == DOMAIN dependency_tree

\* C29: on a successful return of analyze the entry is a key of the recorded
\* graph, the keys are exactly the Done files, and every path in any recorded
\* list is itself a key.
C29_GraphClosedOnSuccess ==
    AnalyzeSucceeded =>
        /\ entry_script \in Keys
        /\ Keys = visited
        /\ \A f \in Keys : Elems(dependency_tree[f]) \subseteq Keys

\* a successful pass whose graph has a file without dependencies that two
\* other files list
C29_Witness ==
    /\ AnalyzeSucceeded
    /\ \E f \in Keys :
          /\ dependency_tree[f] = <<>>
          /\ Cardinality({g \in Keys : f \in Elems(dependency_tree[g])}) = 2

\* C30: at every point of a pass the recorded graph is acyclic: every path in
\* a recorded list was Done before the list was recorded (it stands earlier in
\* the order of completion), so no file reaches itself through recorded
\* edges; and a recorded list is never changed or removed during the pass.
C30_RecordedGraphAcyclic ==
    /\ [](\A f \in Keys :
             /\ f \in Elems(done_order)
             /\ \A d \in Elems(dependency_tree[f]) :
                   /\ d \in visited
                   /\ d \in Elems(SubSeq(done_order, 1, IndexOf(done_order, f) - 1))
             /\ f \notin Descendants(RecordedSucc, f))
    /\ [][InPass =>
              \A f \in Keys :
                 f \in DOMAIN dependency_tree' /\ dependency_tree'[f] = dependency_tree[f]]_vars

\* a pass that ended on a cycle of the file tree after it had recorded edges
C30_Witness ==
    /\ AnalyzeReturned
    /\ result = "CircularDependencyError"
    /\ \E f \in Keys : dependency_tree[f] # <<>>
    /\ \E f \in Keys : f \in TreeSucc[Top(stack)]

\* C31: analyze terminates on every file tree: a call that has started ends,
\* with a manifest and no failure or with one failure and no manifest; on the
\* way no file is read or put on the open path twice and no more references
\* are resolved than the tree holds, also when the tree has a cycle.
C31_AnalyzeTerminates ==
    /\ (phase = "constructed") ~> (phase = "done")
    /\ [](/\ NoRepeats(io.reads)
          /\ NoRepeats(stack)
          /\ Elems(stack) \subseteq Elems(io.reads)
          /\ io.resolves <= EdgeCount
          /\ Len(frames) <= NumFiles
          /\ AnalyzeReturned =>
                \/ result = "ok" /\ error = NoError
                \/ result \in Failures /\ error.kind = result /\ manifest = <<>>)

\* a call on a tree with a cycle below the entry has ended
C31_Witness ==
    /\ AnalyzeReturned
    /\ HasCycle
    /\ entry_script \notin Descendants(TreeSucc, entry_script)
    /\ result = "CircularDependencyError"
    /\ io.resolves >= 3

\* C38: at every point the traversal state is consistent: visiting holds
\* exactly the files on the stack, the stack holds no file twice and has the
\* entry script at its bottom whenever it is not empty, no file is both in
\* visiting and in visited, and after analyze returned a manifest the stack
\* and visiting are empty.
C38_TraversalStateConsistent ==
    /\ visiting = Elems(stack)
    /\ Cardinality(Elems(stack)) = Len(stack)
    /\ stack # <<>> => stack[1] = entry_script
    /\ visited \cap visiting = {}
    /\ AnalyzeSucceeded => (stack = <<>> /\ visiting = {})

\* three files are on the open path, the entry at the bottom, while another
\* file is already Done
C38_Witness ==
    /\ phase = "running"
    /\ Len(stack) = 3
    /\ stack[1] = entry_script
    /\ visiting = Elems(stack)
    /\ visited # {}

\* C39: when analyze is called again on the same DependencyAnalyzer, the
\* tree unchanged, the call ends as the one before it ended: with the same
\* manifest after a manifest, with a failure of the same kind after a failure.
C39_SecondAnalyzeSameOutcome ==
    (phase = "done" /\ calls # <<>>) =>
        \A i \in 1 .. Len(calls) :
            /\ calls[i].result = result
            /\ calls[i].result = "ok" => calls[i].manifest = manifest

\* C40: whenever analyze returns a manifest, the files were marked visited
\* during discovery in the order of the manifest, and the entry script was
\* marked last: the walk of _generate_manifest over the recorded lists and
\* the walk of _analyze_recursive over the files agree.
C40_ManifestIsDoneOrder ==
    AnalyzeSucceeded =>
        /\ done_order # <<>>
        /\ done_order[Len(done_order)] = entry_script
        /\ manifest = SubSeq(done_order, 1, Len(done_order) - 1)

\* a manifest of three files, one of them required by two files and one
\* required again after it was Done
C40_Witness ==
    /\ AnalyzeSucceeded
    /\ Len(manifest) = 3
    /\ \E d \in Elems(manifest) :
          Cardinality({f \in Files : f \in visited /\ d \in Elems(dependency_tree[f])}) >= 2
    /\ \E i, j \in 1 .. 3 :
          i < j /\ manifest[i] \in Elems(dependency_tree[manifest[j]])

\* ------------------------------------------------------------------------
\* Properties of the resolver
\* ------------------------------------------------------------------------
ResolveDone == res_phase = "resolved"
\* the specifier is relative: it begins with ./ or ../
RelativeSpecifier == request.module_name[1] = "." /\ "/" \in {request.module_name[2],
                                                            request.module_name[3]}
GoesUp == request.module_name[2] = "."
OnDisk(d, k) == DiskFile(d, k) \in disk
\* the specifier names the source file itself: it ends in .lua
NamesSourceFile == RelativeSpecifier /\ EndsWith(request.module_name, LuaSuffix)
\* the kinds of module file that answer the specifier: the .lua file and the
\* package for a module name, the .lua file alone for a specifier that names
\* it, and the native libraries of a module name
SourceKinds == IF NamesSourceFile THEN <<1>> ELSE <<1, 2>>
NativeKinds == IF NamesSourceFile THEN {} ELSE {3, 4, 5}
\* the directories a dotted specifier is looked up in, in order: the base
\* directory, the conventional directories that existed at construction, the
\* directories the probe reported
DottedDirs ==
    SelectSeq([d \in 1 .. Len(ModuleDirs) |-> d],
              LAMBDA d : \/ ModuleDirs[d] = base_path
                         \/ ModuleDirs[d] \in existing_locals
                         \/ ModuleDirs[d] \in Elems(luarocks_paths))
\* the directory a relative specifier is looked up in: the directory of the
\* requiring script, or the one above it for ../
RelativeDir ==
    LET here == SubSeq(request.from_script, 1, Len(request.from_script) - 1)
    IN IF GoesUp THEN SubSeq(here, 1, Len(here) - 1) ELSE here
RelativeDirs ==
    SelectSeq([d \in 1 .. Len(ModuleDirs) |-> d], LAMBDA d : ModuleDirs[d] = RelativeDir)
SearchedDirs == IF RelativeSpecifier THEN RelativeDirs ELSE DottedDirs
\* the source candidates on disk at the searched directories, in order of
\* priority: directory by directory, the .lua file before the package
RECURSIVE SourceHitsFrom(_, _)
SourceHitsFrom(dirs, i) ==
    IF i > Len(dirs) THEN <<>>
    ELSE SelectSeq([j \in 1 .. Len(SourceKinds) |-> <<dirs[i], SourceKinds[j]>>],
                   LAMBDA e : OnDisk(e[1], e[2]))
         \o SourceHitsFrom(dirs, i + 1)
SourceHits == SourceHitsFrom(SearchedDirs, 1)
\* the native libraries on disk at the searched directories
NativeHits ==
    {DiskFile(d, k) : d \in Elems(SearchedDirs), k \in NativeKinds} \cap disk

\* C14: a relative specifier is looked up in the directory of the requiring
\* script (above it for ../) and nowhere else: resolve returns the first
\* source candidate there when there is one, and never a file of another
\* directory.
C14_RelativeToRequiringFile ==
    (ResolveDone /\ RelativeSpecifier) =>
        /\ SourceHits # <<>> =>
              resolution = Found(DiskFile(SourceHits[1][1], SourceHits[1][2]))
        /\ SourceHits = <<>> => resolution.kind # "path"

\* ./a/m required from a script below the entry's directory, with a/m.lua
\* both next to the entry and next to the script
C14_Witness ==
    /\ ResolveDone
    /\ RelativeSpecifier
    /\ ~GoesUp
    /\ Parent(request.from_script) # base_path
    /\ OnDisk(1, 1)
    /\ resolution.kind = "path"
    /\ Parent(Parent(Parent(resolution.path))) = Parent(request.from_script)

\* C15: for a dotted specifier resolve returns the first source candidate on
\* disk, going through the base directory, lua_modules, lib, src (those that
\* existed at construction) and the probe's directories in this order, with
\* <name>.lua before <name>/init.lua in each.
C15_FirstSourceCandidateWins ==
    (ResolveDone /\ ~RelativeSpecifier /\ SourceHits # <<>>) =>
        resolution = Found(DiskFile(SourceHits[1][1], SourceHits[1][2]))

\* C16: for a dotted specifier resolve returns a source file whenever a
\* source candidate is on disk in some search directory, and reports a native
\* module only when there is none.
C16_NativeOnlyWithoutSource ==
    (ResolveDone /\ ~RelativeSpecifier) =>
        /\ SourceHits # <<>> => resolution.kind = "path"
        /\ resolution.kind = "CModuleNotSupportedError" => SourceHits = <<>>

\* C17: when no source candidate but a native library is on disk at the
\* searched directories, resolve raises CModuleNotSupportedError with the
\* specifier and the path of such a library; it raises ModuleNotFoundError
\* only when neither is there.
C17_NativeIsNotNotFound ==
    ResolveDone =>
        /\ (SourceHits = <<>> /\ NativeHits # {}) =>
              /\ resolution.kind = "CModuleNotSupportedError"
              /\ resolution.module_name = request.module_name
              /\ resolution.path \in NativeHits
        /\ resolution.kind = "ModuleNotFoundError" =>
              /\ SourceHits = <<>>
              /\ NativeHits = {}
              /\ resolution.module_name = request.module_name

\* a dotted specifier whose only candidate is a native library in a
\* directory after the base directory
C17_Witness ==
    /\ ResolveDone
    /\ ~RelativeSpecifier
    /\ resolution.kind = "CModuleNotSupportedError"
    /\ NativeHits # {}
    /\ SourceHits = <<>>
    /\ Parent(Parent(resolution.path)) # base_path

\* the module files at the directory a relative specifier points into
AtRelativeDir(k) == \E d \in Elems(RelativeDirs) : OnDisk(d, k)
RelativeFile(k) == ModuleDirs[RelativeDirs[1]] \o ModuleFiles[k]

ProbeFailed == probe.raised # "none" \/ probe.returncode # 0 \/ probe.stdout = <<>>

\* C37: the construction of a ModuleResolver never fails because of the run
\* of luarocks, and when that run raised, ended with a non-zero exit code or
\* printed nothing, the search list is the base directory followed by the
\* conventional directories that exist, in their order, and nothing else.
C37_ProbeNeverFails ==
    /\ res_phase # "failed"
    /\ (res_phase \in {"built", "resolved"} /\ ProbeFailed) =>
          /\ luarocks_paths = <<>>
          /\ search_paths =
                <<base_path>>
                \o SelectSeq(local_dirs, LAMBDA local_dir : local_dir \in existing_locals)

\* ------------------------------------------------------------------------
\* Properties of compile_lua_script
\* ------------------------------------------------------------------------
\* the file a dependency argument names
FileOf(text) == (CHOOSE r \in DepArgs : r.text = text).file
FileOnDisk(n) == ScriptFiles[n].path \in eng_disk
\* luastatic, the entry, then the listed dependencies that exist, in the
\* order of the list, each as its absolute path
ExpectedCommand ==
    LET present == SelectSeq(eng_args.dependencies, LAMBDA dep : FileOnDisk(FileOf(dep)))
    IN <<Luastatic, ScriptFiles[EntryArg.file].text>>
       \o [i \in 1 .. Len(present) |-> ScriptFiles[FileOf(present[i])].text]

\* C20: the command compile_lua_script hands to subprocess.run is luastatic,
\* the resolved entry path, then the resolved path of every listed dependency
\* that exists, in the caller's order; a missing dependency is left out; an
\* empty list gives a command of exactly two elements.
C20_CommandInCallerOrder ==
    /\ Len(invoked) <= 1
    /\ \A i \in 1 .. Len(invoked) :
          /\ invoked[i] = ExpectedCommand
          /\ eng_args.dependencies = <<>> => Len(invoked[i]) = 2
    /\ (eng_phase = "done" /\ tools = {"luastatic", "gcc"} /\ FileOnDisk(EntryArg.file)) =>
          Len(invoked) = 1

\* a build run for three dependencies, the second missing, the first and the
\* third not in the order of their names
C20_Witness ==
    /\ eng_phase = "done"
    /\ Len(invoked) = 1
    /\ Len(eng_args.dependencies) = 3
    /\ FileOnDisk(FileOf(eng_args.dependencies[1]))
    /\ ~FileOnDisk(FileOf(eng_args.dependencies[2]))
    /\ FileOnDisk(FileOf(eng_args.dependencies[3]))
    /\ FileOf(eng_args.dependencies[1]) > FileOf(eng_args.dependencies[3])
    /\ Len(invoked[1]) = 4

EngDone == eng_phase = "done"
EntryOnDisk == FileOnDisk(EntryArg.file)

\* C21: a call of compile_lua_script whose entry script does not exist ends
\* with ScriptNotFoundError carrying the entry argument, and no build command
\* has been run.
C21_MissingEntryIsScriptNotFound ==
    (EngDone /\ ~EntryOnDisk) =>
        /\ eng_result.kind = "ScriptNotFoundError"
        /\ eng_result.text = eng_args.entry_script
        /\ invoked = <<>>

\* the file the build is expected to leave, for each value of the output argument
OutputText ==
    IF eng_args.output = <<>> THEN <<"/", "w", "/", "m">> ELSE <<"/", "w", "/", "o", "/", "x">>
OutputOnDisk ==
    IF eng_args.output = <<>>
    THEN << <<"w">>, <<"m">> >> \in eng_disk
    ELSE << <<"w">>, <<"o">>, <<"x">> >> \in eng_disk
BuildRan == invoked # <<>>

\* C22: compile_lua_script reports the first failing step: luastatic missing,
\* then gcc missing, both without running the build command; after the build
\* ran, a non-zero exit code (CompilationFailedError with that code and the
\* stderr of the run) before a missing output file (OutputFileNotFoundError);
\* it returns the output path only after exit code 0 with the output file present.
C22_FirstFailingStep ==
    EngDone =>
        /\ "luastatic" \notin tools =>
              eng_result.kind = "LuastaticNotFoundError" /\ ~BuildRan
        /\ ("luastatic" \in tools /\ "gcc" \notin tools) =>
              eng_result.kind = "CompilerNotFoundError" /\ ~BuildRan
        /\ (BuildRan /\ run_result.returncode # 0) =>
              /\ eng_result.kind = "CompilationFailedError"
              /\ eng_result.returncode = run_result.returncode
              /\ eng_result.stderr = run_result.stderr
        /\ (BuildRan /\ run_result.returncode = 0 /\ ~OutputOnDisk) =>
              eng_result.kind = "OutputFileNotFoundError"
        /\ (BuildRan /\ run_result.returncode = 0 /\ OutputOnDisk) =>
              eng_result.kind = "returned" /\ eng_result.text = OutputText
        /\ eng_result.kind = "returned" =>
              BuildRan /\ run_result.returncode = 0 /\ OutputOnDisk

\* the build ended with a non-zero exit code and diagnostics, and left no
\* output file: two failures, of which the exit code is the one reported
C22_Witness ==
    /\ EngDone
    /\ BuildRan
    /\ run_result.returncode = 2
    /\ run_result.stderr # <<>>
    /\ ~OutputOnDisk
    /\ eng_result.kind = "CompilationFailedError"

\* ------------------------------------------------------------------------
\* Lexical structure of a source text, the reference the scanner is held to
\* ------------------------------------------------------------------------
Min(S) == CHOOSE x \in S : \A y \in S : x <= y
Equals(n) == [i \in 1 .. n |-> "="]
\* a long-bracket opener [=*[ or closer ]=*] of level n stands at position p
IsOpener(p, n) == Slice(p, p + n + 2) = <<"[">> \o Equals(n) \o <<"[">>
IsCloser(p, n) == Slice(p, p + n + 2) = <<"]">> \o Equals(n) \o <<"]">>
OpenerLevels(p) == {n \in 0 .. Len(source) : IsOpener(p, n)}
\* the first closer of level n at or after p, Len(source) if there is none
CloserPos(p, n) ==
    LET S == {q \in p .. (Len(source) - 1) : IsCloser(q, n)}
    IN IF S = {} THEN Len(source) ELSE Min(S)
\* the first newline at or after p, Len(source) if there is none
NewlinePos(p) ==
    LET S == {q \in p .. (Len(source) - 1) : source[q + 1] = "\n"}
    IN IF S = {} THEN Len(source) ELSE Min(S)
\* the quote that closes a string whose content starts at p: a backslash takes
\* the next character with it; Len(source) if the string is not closed
RECURSIVE QuoteClose(_, _)
QuoteClose(p, q) ==
    IF p >= Len(source) THEN Len(source)
    ELSE IF source[p + 1] = "\\" THEN QuoteClose(p + 2, q)
    ELSE IF source[p + 1] = q THEN p
    ELSE QuoteClose(p + 1, q)

Construct(kind, first, close, width) ==
    [kind |-> kind, first |-> first,
     last |-> IF close >= Len(source) THEN Len(source) - 1 ELSE close + width - 1,
     closed |-> close < Len(source)]

\* the strings and comments of the source from position p on, in order
RECURSIVE Constructs(_)
Constructs(p) ==
    IF p >= Len(source) THEN <<>>
    ELSE IF Slice(p, p + 2) = <<"-", "-">>
    THEN IF OpenerLevels(p + 2) # {}
         THEN LET n == Min(OpenerLevels(p + 2))
                  c == Construct("block comment", p, CloserPos(p + 4 + n, n), n + 2)
              IN <<c>> \o Constructs(c.last + 1)
         ELSE LET c == [Construct("line comment", p, NewlinePos(p), 1) EXCEPT !.closed = TRUE]
              IN <<c>> \o Constructs(c.last + 1)
    ELSE IF source[p + 1] \in {"'", "\""}
    THEN LET c == Construct(IF source[p + 1] = "'" THEN "single-quoted string"
                                                  ELSE "double-quoted string",
                            p, QuoteClose(p + 1, source[p + 1]), 1)
         IN <<c>> \o Constructs(c.last + 1)
    ELSE IF OpenerLevels(p) # {}
    THEN LET n == Min(OpenerLevels(p))
             c == Construct("long string", p, CloserPos(p + 2 + n, n), n + 2)
         IN <<c>> \o Constructs(c.last + 1)
    ELSE Constructs(p + 1)

TrueConstructs == Constructs(0)
\* position p lies in a string or a comment
InsideConstruct(p) ==
    \E i \in 1 .. Len(TrueConstructs) :
        TrueConstructs[i].first <= p /\ p <= TrueConstructs[i].last
\* position p lies in a comment, or in a string that is closed
InsideClosedConstruct(p) ==
    \E i \in 1 .. Len(TrueConstructs) :
        /\ TrueConstructs[i].closed
        /\ TrueConstructs[i].first <= p /\ p <= TrueConstructs[i].last
\* the source ends inside a string, long string or block comment
TrueUnterminated == \E i \in 1 .. Len(TrueConstructs) : ~TrueConstructs[i].closed
\* the 1-based line position p stands on
TrueLine(p) == 1 + Cardinality({q \in 0 .. (p - 1) : source[q + 1] = "\n"})

IsIdentChar(c) == IsAlnum(c) \/ c = "_"
\* a require keyword stands at p, in code, as a name of its own
TrueOccurrence(p) ==
    /\ Slice(p, p + Len(Keyword)) = Keyword
    /\ ~InsideConstruct(p)
    /\ p > 0 => ~(IsIdentChar(source[p]) \/ source[p] \in {".", ":"})
    /\ ~IsIdentChar(CharAt(p + Len(Keyword)))
\* the first position at or after p that holds no whitespace
PastBlank(p) == Min({q \in p .. Len(source) : CharAt(q) \notin Whitespace})
\* where the argument of the require at p starts
ArgStart(p) ==
    LET q == PastBlank(p + Len(Keyword))
    IN IF CharAt(q) = "(" THEN PastBlank(q + 1) ELSE q
\* the literal that starts at position a: its content and where it ends
QuotedAt(a) == CharAt(a) \in {"'", "\""}
LongAt(a) == OpenerLevels(a) # {}
LiteralAt(a) == QuotedAt(a) \/ LongAt(a)
LiteralLevel(a) == Min(OpenerLevels(a))
LiteralClose(a) ==
    IF QuotedAt(a) THEN QuoteClose(a + 1, CharAt(a))
    ELSE CloserPos(a + 2 + LiteralLevel(a), LiteralLevel(a))
LiteralRaw(a) ==
    IF QuotedAt(a) THEN Slice(a + 1, LiteralClose(a))
    ELSE Slice(a + 2 + LiteralLevel(a), LiteralClose(a))
LiteralEnd(a) ==
    IF QuotedAt(a) THEN LiteralClose(a) + 1 ELSE LiteralClose(a) + 2 + LiteralLevel(a)
Terminated(a) == LiteralClose(a) < Len(source)
ConcatAfter(a) == Slice(PastBlank(LiteralEnd(a)), PastBlank(LiteralEnd(a)) + 2) = <<".", ".">>
\* the argument of the require at p is a closed literal with no .. after it
StaticArgument(p) ==
    LET a == ArgStart(p) IN LiteralAt(a) /\ Terminated(a) /\ ~ConcatAfter(a)
\* the argument of the require at p is no literal, or a literal followed by ..
DynamicArgument(p) ==
    LET a == ArgStart(p) IN ~LiteralAt(a) \/ (Terminated(a) /\ ConcatAfter(a))

\* ------------------------------------------------------------------------
\* Properties of the scanner
\* ------------------------------------------------------------------------
Returned == lex_result = "returned"
\* the calls of _parse_require whose result was appended to requires
Kept == {i \in 1 .. Len(lex_log) : lex_log[i].index # 0}

\* C5: extract_requires returns no reference for a require that lies inside
\* a quoted string, a long-bracket string, a line comment or a block comment.
C5_NoRequireFromStringsOrComments ==
    Returned => \A i \in Kept : ~InsideClosedConstruct(lex_log[i].start_pos)

\* C6: a require in code whose argument is no literal, or a literal followed
\* by .., makes extract_requires raise DynamicRequireError with the line the
\* keyword stands on and the statement; it is never passed over.
C6_DynamicRequireAlwaysRaises ==
    /\ Returned =>
          \A p \in 0 .. (Len(source) - 1) : ~(TrueOccurrence(p) /\ DynamicArgument(p))
    /\ (lex_result = "DynamicRequireError" /\ DynamicArgument(Top(lex_log).start_pos)) =>
          /\ lex_error.line_number = TrueLine(Top(lex_log).start_pos)
          /\ lex_error.reason = "statement" =>
                /\ lex_error.start = Top(lex_log).start_pos
                /\ lex_error.stop >= ArgStart(Top(lex_log).start_pos)

\* C7: when the argument of a parsed require is a closed literal with no ..
\* after it, _parse_require gives the raw text between the delimiters,
\* backslashes and escaped characters included, and that text is what
\* extract_requires records.
C7_SpecifierIsRawText ==
    \A i \in 1 .. Len(lex_log) :
        LET e == lex_log[i]
        IN StaticArgument(e.start_pos) =>
              /\ ~e.parsed.raised
              /\ e.parsed.module_name = LiteralRaw(ArgStart(e.start_pos))
              /\ e.index # 0 =>
                    /\ e.index <= Len(requires)
                    /\ requires[e.index][1] = LiteralRaw(ArgStart(e.start_pos))

\* a returned reference whose literal holds an escaped quote
C7_Witness ==
    /\ Returned
    /\ \E i \in Kept :
          /\ StaticArgument(lex_log[i].start_pos)
          /\ \E k \in 1 .. (Len(requires[lex_log[i].index][1]) - 1) :
                /\ requires[lex_log[i].index][1][k] = "\\"
                /\ requires[lex_log[i].index][1][k + 1] = "\""

\* C8: every returned reference carries the 1-based line of the first
\* character of its require keyword; the lines are positive and non-decreasing.
C8_LineOfKeyword ==
    Returned =>
        /\ \A i \in Kept :
              requires[lex_log[i].index][2] = TrueLine(lex_log[i].start_pos)
        /\ \A k \in 1 .. Len(requires) :
              /\ requires[k][2] >= 1
              /\ k > 1 => requires[k - 1][2] <= requires[k][2]

\* C9: inside a long-bracket string or block comment of level n, a position
\* that holds no closing bracket of exactly level n leaves the scanner in the
\* same state at the same level and adds no reference.
C9_MismatchedCloserIsInert ==
    [][(/\ lex_result = "scanning"
        /\ pos < Len(source)
        /\ state \in {"IN_LONG_STRING", "IN_BLOCK_COMMENT"}
        /\ ~IsCloser(pos, long_bracket_level))
       => (/\ state' = state
           /\ long_bracket_level' = long_bracket_level
           /\ requires' = requires
           /\ lex_log' = lex_log
           /\ lex_result' = "scanning"
           /\ pos' = pos + 1)]_vars

\* the scanner is still inside a level-1 construct after a level-0 closer
\* and a require keyword
C9_Witness ==
    /\ lex_result = "scanning"
    /\ state \in {"IN_LONG_STRING", "IN_BLOCK_COMMENT"}
    /\ long_bracket_level = 1
    /\ requires = <<>>
    /\ \E o \in 0 .. pos : \E q \in (o + 3) .. pos : \E k \in (q + 2) .. pos :
          /\ IsOpener(o, 1)
          /\ IsCloser(q, 0)
          /\ Slice(k, k + Len(Keyword)) = Keyword
          /\ k + Len(Keyword) <= pos

\* C10: a source that ends inside an unclosed string, long string or block
\* comment is answered neither by a returned list nor by DynamicRequireError.
C10_UnterminatedIsMalformed ==
    /\ ~(Returned /\ TrueUnterminated)
    /\ ~(lex_result = "DynamicRequireError"
         /\ lex_error.reason \in {"unterminated string", "unterminated long string"})

\* the require keyword stands at p as a name of its own: the character before
\* it is no identifier character, `.` or `:`, the character after it is no
\* identifier character
OwnName(p) ==
    /\ Slice(p, p + Len(Keyword)) = Keyword
    /\ p > 0 => ~(IsIdentChar(source[p]) \/ source[p] \in {".", ":"})
    /\ ~IsIdentChar(CharAt(p + Len(Keyword)))

\* C11: a step of the scanner calls _parse_require, adds a reference or
\* raises only when the scanner is in the NORMAL state at a require that
\* stands as a name of its own; a require inside a longer identifier or
\* after `.` or `:` gives neither a reference nor a failure.
C11_KeywordOnlyAsOwnName ==
    [][(lex_log' # lex_log \/ requires' # requires \/ lex_result' = "DynamicRequireError")
       => (/\ state = "NORMAL"
           /\ state' = "NORMAL"
           /\ OwnName(pos))]_vars

\* a scan that returned a reference and passed over obj.require, obj:require,
\* _require and required-like text standing in code
C11_Witness ==
    /\ Returned
    /\ Kept # {}
    /\ \E p \in 1 .. (Len(source) - 1) :
          /\ Slice(p, p + Len(Keyword)) = Keyword
          /\ source[p] \in {".", ":"}
          /\ ~InsideConstruct(p)
          /\ \A i \in 1 .. Len(lex_log) : lex_log[i].start_pos # p
    /\ \E p \in 0 .. (Len(source) - 1) :
          /\ Slice(p, p + Len(Keyword)) = Keyword
          /\ IsIdentChar(CharAt(p + Len(Keyword)))
          /\ ~InsideConstruct(p)
          /\ \A i \in 1 .. Len(lex_log) : lex_log[i].start_pos # p

\* the calls of _parse_require made at position p whose result was kept
KeptAt(p) == {i \in Kept : lex_log[i].start_pos = p}

\* C32: every require that stands in code as a name of its own has exactly
\* one outcome: when extract_requires returns, one entry of the returned list
\* for each of them; when it raises, one entry for each of them before the
\* one that failed. None is dropped, whatever its literal holds and whatever
\* follows the literal of the reference before it.
C32_NoOccurrenceDropped ==
    /\ Returned =>
          /\ \A p \in 0 .. (Len(source) - 1) :
                TrueOccurrence(p) => Cardinality(KeptAt(p)) = 1
          /\ Len(requires) = Cardinality({p \in 0 .. (Len(source) - 1) : TrueOccurrence(p)})
    /\ lex_result = "DynamicRequireError" =>
          \A p \in 0 .. (Top(lex_log).start_pos - 1) :
              TrueOccurrence(p) => Cardinality(KeptAt(p)) = 1

\* C33: at every point of the scan the line counter is one more than the
\* number of newlines that stand before the current position, whatever the
\* state and whether or not a reference and its argument were just parsed.
C33_LineCounterIsTrueLine ==
    lex_result = "scanning" =>
        line = TrueLine(IF pos < Len(source) THEN pos ELSE Len(source))

\* the number of backslashes that stand in a row directly before position p
BackslashesBefore(p) ==
    Cardinality({k \in 1 .. p : \A j \in 1 .. k : source[p - j + 1] = "\\"})

\* C34: while the scanner is inside a quoted string, the character it looks
\* at ends the string exactly when it is a quote of the kind that opened it
\* and an even number of backslashes (none included) stands directly before
\* it; a quote of the other kind, like any other character, leaves the
\* scanner in the string.
C34_QuoteEndsStringIffEvenBackslashes ==
    [][(/\ lex_result = "scanning"
        /\ pos < Len(source)
        /\ state \in {"IN_STRING_SINGLE", "IN_STRING_DOUBLE"})
       => LET own == IF state = "IN_STRING_SINGLE" THEN "'" ELSE "\""
              ends == CharAt(pos) = own /\ BackslashesBefore(pos) % 2 = 0
          IN state' = IF ends THEN "NORMAL" ELSE state]_vars

\* a double-quoted string that held an escaped double quote and a single
\* quote has just been ended by a double quote with no backslash before it
C34_Witness ==
    /\ lex_result = "scanning"
    /\ state = "NORMAL"
    /\ pos >= 5
    /\ \E o \in 0 .. (pos - 5) :
          /\ Slice(o, pos) = <<"\"", "\\", "\"", "'", "\"">>
          /\ \E i \in 1 .. Len(TrueConstructs) :
                /\ TrueConstructs[i].first = o
                /\ TrueConstructs[i].last = pos - 1
                /\ TrueConstructs[i].closed

====
